---- MODULE Spec2Model ----
(***************************************************************************)
(* Arbitrary-precision signed integers in two representations:             *)
(* BinaryArithmetic (little-endian 8-bit words) and FactorialArithmetic    *)
(* (bit-packed factorial-base coefficients), with the decimal-string       *)
(* utilities and the CRTP operator scaffolding they share.                 *)
(*                                                                         *)
(* A std::string is a sequence of character codes ('0' = 48, '-' = 45).    *)
(* A Storage<uint8_t> is a record [words, sign, value].                    *)
(***************************************************************************)
EXTENDS Integers, Sequences, FiniteSets

VARIABLES
    pc,     \* position of the driver: "ready" | "done"
    x,      \* left operand / assignment target: [src, n, s, bin, fac]
    y,      \* right operand, same shape
    op,     \* the operation performed last
    out,    \* its outcome per representation: [bin, fac]
    g,      \* the byte a read past the end of an empty word vector returns is zero
    steps   \* number of operations performed since construction

vars == <<pc, x, y, op, out, g, steps>>

----------------------------------------------------------------------------
(* Constants of the program                                                *)

ZERO == 48
ONE == 49
MINUS == 45
NINE == 57
VALUE_COUNT_BIT == 8
MAX_VALUE == 255
UINT64_DIGITS == 64
CHUNK_BASE == 1000000000
MAX_CONV_INDEX == 21

----------------------------------------------------------------------------
(* Small helpers for sequences and fixed-width words                       *)

Max(a, b) == IF a >= b THEN a ELSE b
Min(a, b) == IF a <= b THEN a ELSE b

Reverse(s) == [i \in 1..Len(s) |-> s[Len(s) + 1 - i]]

\* while (cond(st)) st = body(st), evaluated eight iterations at a time
RECURSIVE while_block(_, _, _, _)
while_block(cond(_), body(_), st, fuel) ==
    IF fuel = 0 \/ ~cond(st) THEN st
    ELSE while_block(cond, body, body(st), fuel - 1)

RECURSIVE While(_, _, _)
While(cond(_), body(_), st) ==
    IF ~cond(st) THEN st
    ELSE While(cond, body, while_block(cond, body, st, 8))

\* a local whose initialiser is evaluated where it is declared: f(v)
With(v, f(_)) == f(v)

\* (w >> k) & 1
BitOf(w, k) == (w \div (2 ^ k)) % 2

\* std::to_string of a native unsigned value
RECURSIVE std_to_string(_)
std_to_string(n) ==
    IF n < 10 THEN <<ZERO + n>>
    ELSE Append(std_to_string(n \div 10), ZERO + (n % 10))

----------------------------------------------------------------------------
(* impl::BigNumberOperations                                               *)

\* is_integral_valid_string without its test for a leading zero
is_integral_valid_string_any_zero(str) ==
    IF Len(str) = 0 THEN FALSE
    ELSE IF str[1] = MINUS /\ Len(str) = 1 THEN FALSE
    ELSE LET start_idx == IF str[1] = MINUS THEN 1 ELSE 0 IN
         \A i \in (start_idx + 1)..Len(str) : ~(str[i] < ZERO \/ str[i] > NINE)

is_integral_valid_string(str) ==
    IF Len(str) = 0 THEN FALSE
    ELSE IF str[1] = MINUS /\ Len(str) = 1 THEN FALSE
    ELSE LET start_idx == IF str[1] = MINUS THEN 1 ELSE 0 IN
         IF Len(str) > start_idx + 1 /\ str[start_idx + 1] = ZERO THEN FALSE
         ELSE \A i \in (start_idx + 1)..Len(str) : ~(str[i] < ZERO \/ str[i] > NINE)

\* std::string_view::compare(b) >= 0 for strings of equal length
\* std::string's operator>= on strings of equal length
lex_ge(a, b) ==
    LET diff == {i \in 1..Len(a) : a[i] # b[i]} IN
    IF diff = {} THEN TRUE
    ELSE LET i == CHOOSE k \in diff : \A m \in diff : k <= m IN a[i] > b[i]

greater_or_equal(a, b) ==
    IF Len(a) # Len(b) THEN Len(a) > Len(b)
    ELSE lex_ge(a, b)

\* erase [begin, first element that is not zero)
drop_leading(c, zero) ==
    LET keep == {i \in 1..Len(c) : c[i] # zero} IN
    IF keep = {} THEN <<>>
    ELSE SubSeq(c, CHOOSE k \in keep : \A m \in keep : k <= m, Len(c))

\* erase (last element that is not zero, end)
drop_trailing(c, zero) ==
    LET keep == {i \in 1..Len(c) : c[i] # zero} IN
    IF keep = {} THEN <<>>
    ELSE SubSeq(c, 1, CHOOSE k \in keep : \A m \in keep : k >= m)

\* remove_zeros(c, mode): zero is '0' for a string and 0 for a numeric container
remove_zeros(c, mode, zero) ==
    IF c = <<>> THEN c
    ELSE With(IF mode = "Leading" THEN drop_leading(c, zero) ELSE drop_trailing(c, zero),
              LAMBDA t : IF t = <<>> THEN <<zero>> ELSE t)

\* divide_string_by_integral(str, divisor), divisor > 0: <<quotient, remainder>>
divide_string_by_integral(str, divisor) ==
    IF str = <<>> \/ (Len(str) = 1 /\ str[1] = ZERO) THEN << <<ZERO>>, 0 >>
    ELSE With(While(LAMBDA st : st.i <= Len(str),
                    LAMBDA st :
                        LET accumulated == st.remainder * 10 + (str[st.i] - ZERO) IN
                        [i |-> st.i + 1,
                         quotient |-> Append(st.quotient, (accumulated \div divisor) + ZERO),
                         remainder |-> accumulated % divisor],
                    [i |-> 1, quotient |-> <<>>, remainder |-> 0]),
              LAMBDA r : << remove_zeros(r.quotient, "Leading", ZERO), r.remainder >>)

\* subtract_strings(a, b); the empty string stands for the std::runtime_error
\* thrown when a < b.  i, j are 1-based positions from the right
subtract_strings(a, b) ==
    IF b = <<ZERO>> THEN a
    ELSE IF a = b THEN <<ZERO>>
    ELSE IF ~greater_or_equal(a, b) THEN <<>>
    ELSE LET r == While(LAMBDA st : st.i >= 1,
                        LAMBDA st :
                            LET digit_a == a[st.i] - ZERO
                                digit_b == IF st.j >= 1 THEN b[st.j] - ZERO ELSE 0
                                diff == digit_a - digit_b - st.borrow IN
                            [i |-> st.i - 1, j |-> st.j - 1,
                             borrow |-> IF diff < 0 THEN 1 ELSE 0,
                             result_str |-> Append(st.result_str,
                                                   (IF diff < 0 THEN diff + 10 ELSE diff) + ZERO)],
                        [i |-> Len(a), j |-> Len(b), borrow |-> 0, result_str |-> <<>>]) IN
         remove_zeros(Reverse(r.result_str), "Leading", ZERO)

\* multiply_strings(a, b); i, j are the 0-based positions of the source
multiply_strings(a, b) ==
    IF a = <<ZERO>> \/ b = <<ZERO>> THEN <<ZERO>>
    ELSE With(While(LAMBDA st : st.i >= 0,
                    LAMBDA st :
                        [i |-> st.i - 1,
                         rd |-> While(LAMBDA in : in.j >= 0,
                                      LAMBDA in :
                                          LET pos == st.i + in.j + 1
                                              sum == (a[st.i + 1] - ZERO) * (b[in.j + 1] - ZERO)
                                                         + in.rd[pos + 1] IN
                                          [j |-> in.j - 1,
                                           rd |-> [in.rd EXCEPT ![pos + 1] = sum % 10,
                                                                ![pos] = @ + sum \div 10]],
                                      [j |-> Len(b) - 1, rd |-> st.rd]).rd],
                    [i |-> Len(a) - 1, rd |-> [k \in 1..(Len(a) + Len(b)) |-> 0]]).rd,
              LAMBDA result_digits :
                  remove_zeros([k \in 1..Len(result_digits) |-> result_digits[k] + ZERO],
                               "Leading", ZERO))

\* divide_strings(a, b), b # "0": <<quotient, remainder>>
divide_strings(a, b) ==
    IF a = <<ZERO>> THEN << <<ZERO>>, <<ZERO>> >>
    ELSE IF ~greater_or_equal(a, b) THEN << <<ZERO>>, a >>
    ELSE With(While(LAMBDA st : st.i <= Len(a),
                    LAMBDA st :
                        With(While(LAMBDA c : greater_or_equal(c.rem, b),
                                   LAMBDA c : [rem |-> subtract_strings(c.rem, b),
                                               count |-> c.count + 1],
                                   [rem |-> remove_zeros(Append(st.current_remainder_str, a[st.i]),
                                                         "Leading", ZERO),
                                    count |-> 0]),
                             LAMBDA c : [i |-> st.i + 1,
                                         quotient_str |-> Append(st.quotient_str, c.count + ZERO),
                                         current_remainder_str |-> c.rem]),
                    [i |-> 1, quotient_str |-> <<>>, current_remainder_str |-> <<>>]),
              LAMBDA r : << remove_zeros(r.quotient_str, "Leading", ZERO),
                            remove_zeros(r.current_remainder_str, "Leading", ZERO) >>)

----------------------------------------------------------------------------
(* impl::OverflowAwareOps on uint8_t: <<result, carry'>>                   *)

\* sum with the carry out dropped
OverflowOps_sum_no_carry(ai, bi, carry) == << (ai + bi + carry) % 256, 0 >>

\* sum that takes a carry out only from result < ai or result < bi
OverflowOps_sum_by_less(ai, bi, carry) ==
    LET result == (ai + bi + carry) % 256 IN
    << result, IF result < ai \/ result < bi THEN 1 ELSE 0 >>

OverflowOps_sum(ai, bi, carry) ==
    LET result == (ai + bi + carry) % 256 IN
    << result,
       IF result < ai \/ result < bi \/ (carry # 0 /\ result = ai) THEN 1 ELSE 0 >>

OverflowOps_subtract(ai, bi, borrow) ==
    LET result == (ai - bi - borrow) % 256 IN
    << result, IF ai < bi + borrow THEN 1 ELSE 0 >>

----------------------------------------------------------------------------
(* impl::OverflowAwareOps on unsigned int, 32 bits wide: a value is the     *)
(* pair <<high half, low half>> of its 16-bit halves.  unsigned int is not  *)
(* promoted, so every operator wraps at 2^32; uint8_t operands are promoted *)
(* to int and only the conversion of the result to uint8_t wraps.           *)

uint_add(p, q) ==
    LET lo == p[2] + q[2]
        hi == p[1] + q[1] + lo \div (2 ^ 16) IN
    << hi % (2 ^ 16), lo % (2 ^ 16) >>

uint_sub(p, q) ==
    LET lo == p[2] - q[2]
        hi == p[1] - q[1] - (IF lo < 0 THEN 1 ELSE 0) IN
    << hi % (2 ^ 16), lo % (2 ^ 16) >>

uint_lt(p, q) == p[1] < q[1] \/ (p[1] = q[1] /\ p[2] < q[2])

\* unsigned int(n) for n = 0, 1
uint(n) == << 0, n >>

UIntOps_sum(ai, bi, carry) ==
    LET result == uint_add(uint_add(ai, bi), uint(carry)) IN
    << result,
       IF uint_lt(result, ai) \/ uint_lt(result, bi) \/ (carry # 0 /\ result = ai)
       THEN 1 ELSE 0 >>

UIntOps_subtract(ai, bi, borrow) ==
    LET result == uint_sub(uint_sub(ai, bi), uint(borrow)) IN
    << result, IF uint_lt(ai, uint_add(bi, uint(borrow))) THEN 1 ELSE 0 >>

----------------------------------------------------------------------------
(* impl::Storage                                                           *)

Storage(words, sign, value) == [words |-> words, sign |-> sign, value |-> value]

EmptyStorage == Storage(<<>>, FALSE, 0)

----------------------------------------------------------------------------
(* BinaryArithmetic                                                        *)

\* BinaryAccess::extract(data, index).value_or(0), index 0-based
BinaryAccess_extract(data, index) ==
    IF index < Len(data) THEN data[index + 1] ELSE 0

\* the carry loop of shift_left over the words i >= word_shift (0-based)
RECURSIVE shift_bits_loop(_, _, _, _)
shift_bits_loop(words, bit_shift, i, carry) ==
    IF i >= Len(words)
    THEN IF carry # 0 THEN Append(words, carry) ELSE words
    ELSE LET current == words[i + 1] IN
         shift_bits_loop(
             [words EXCEPT ![i + 1] = ((current * (2 ^ bit_shift)) % 256) + carry],
             bit_shift, i + 1,
             current \div (2 ^ (VALUE_COUNT_BIT - bit_shift)))

shift_left(input, shift) ==
    IF input.words = <<>> \/ shift = 0 THEN input
    ELSE LET word_shift == shift \div VALUE_COUNT_BIT
             bit_shift == shift % VALUE_COUNT_BIT
             moved == [i \in 1..(Len(input.words) + word_shift) |->
                          IF i <= word_shift THEN 0 ELSE input.words[i - word_shift]] IN
         Storage(IF bit_shift # 0 THEN shift_bits_loop(moved, bit_shift, word_shift, 0)
                 ELSE moved,
                 FALSE, 0)

Binary_is_zero(a) == \A i \in 1..Len(a.words) : a.words[i] = 0

\* BinaryArithmetic::trim_leading_zeros; on an empty word vector back() reads
\* past the storage and g tells whether the byte found there is zero
Binary_trim_leading_zeros(a) ==
    With(remove_zeros(a.words, "Trailing", 0),
         LAMBDA w : Storage(w,
                            IF (IF w = <<>> THEN g ELSE w[Len(w)] = 0) THEN FALSE ELSE a.sign,
                            a.value))

\* _storage.back() in trim_leading_zeros is evaluated on a vector that holds no
\* element, and reads outside the word storage; a is the value as
\* trim_leading_zeros finds or leaves it
trim_reads_outside(a) == remove_zeros(a.words, "Trailing", 0) = <<>>

\* up to VALUE_COUNT_BIT rounds of the conversion loop of
\* BinaryArithmetic(std::string_view), filling one word:
\* <<remaining value, word, bit_index>> (bit_index 0: the word is full)
RECURSIVE binary_parse_word(_, _, _)
binary_parse_word(value, word, bit_index) ==
    IF value = <<ZERO>> THEN <<value, word, bit_index>>
    ELSE With(divide_string_by_integral(value, 2),
              LAMBDA qr :
                  IF bit_index + 1 = VALUE_COUNT_BIT
                  THEN <<qr[1], word + qr[2] * (2 ^ bit_index), 0>>
                  ELSE binary_parse_word(qr[1], word + qr[2] * (2 ^ bit_index), bit_index + 1))

\* the conversion loop of BinaryArithmetic(std::string_view), word by word
RECURSIVE binary_parse_loop(_, _)
binary_parse_loop(value, storage) ==
    IF value = <<ZERO>> THEN storage
    ELSE With(binary_parse_word(value, 0, 0),
              LAMBDA r : IF r[3] = 0 /\ Len(r[1]) > 0
                         THEN binary_parse_loop(r[1], Append(storage, r[2]))
                         ELSE Append(storage, r[2]))

\* BinaryArithmetic(std::string_view) for a string the validity check accepts
Binary_from_string(str) ==
    LET neg == str[1] = MINUS
        value == IF neg THEN Tail(str) ELSE str IN
    IF Len(value) = 1 /\ value[1] = ZERO THEN Storage(<<0>>, neg, 0)
    ELSE Storage(binary_parse_loop(value, <<>>), neg, 0)

RECURSIVE binary_int_words(_)
binary_int_words(abs_value) ==
    IF abs_value = 0 THEN <<>>
    ELSE <<abs_value % (MAX_VALUE + 1)>> \o binary_int_words(abs_value \div (2 ^ VALUE_COUNT_BIT))

\* BinaryArithmetic(_Ty value)
Binary_from_int(value) ==
    IF value = 0 THEN Storage(<<0>>, FALSE, 0)
    ELSE Binary_trim_leading_zeros(
             Storage(binary_int_words(IF value < 0 THEN -value ELSE value), value < 0, 0))

\* BinaryArithmetic()
Binary_default == EmptyStorage

\* the word-assembly loop of operator _Ty: the bytes of the 64-bit result,
\* least significant first (words at a shift >= max_bits are not read)
Binary_assemble(a, max_bits) ==
    [i \in 1..Min(Len(a.words), max_bits \div VALUE_COUNT_BIT) |-> a.words[i]]

\* divide a big-endian byte string by ten: <<quotient bytes, remainder>>
RECURSIVE bytes_div10(_, _, _, _)
bytes_div10(be, i, q, r) ==
    IF i > Len(be) THEN <<q, r>>
    ELSE LET acc == r * 256 + be[i] IN
         bytes_div10(be, i + 1, Append(q, acc \div 10), acc % 10)

RECURSIVE bytes_to_decimal(_)
bytes_to_decimal(be) ==
    With(bytes_div10(be, 1, <<>>, 0),
         LAMBDA qr : With(drop_leading(qr[1], 0),
                          LAMBDA q : IF q = <<>> THEN <<ZERO + qr[2]>>
                                     ELSE Append(bytes_to_decimal(q), ZERO + qr[2])))

\* std::to_string(uint64_t) of a result given by its bytes, least significant first
std_to_string_u64(bytes) == bytes_to_decimal(Reverse(bytes))

RECURSIVE multiply_vector_by_2(_, _, _)
multiply_vector_by_2(digits, i, carry) ==
    IF i > Len(digits)
    THEN IF carry # 0 THEN Append(digits, carry) ELSE digits
    ELSE LET val == digits[i] * 2 + carry IN
         multiply_vector_by_2([digits EXCEPT ![i] = val % CHUNK_BASE], i + 1,
                              val \div CHUNK_BASE)

RECURSIVE add_carry_to_vector(_, _, _)
add_carry_to_vector(digits, i, carry) ==
    IF i > Len(digits)
    THEN IF carry # 0 THEN Append(digits, carry) ELSE digits
    ELSE LET val == digits[i] + carry
             d == [digits EXCEPT ![i] = val % CHUNK_BASE] IN
         IF val \div CHUNK_BASE = 0 THEN d
         ELSE add_carry_to_vector(d, i + 1, val \div CHUNK_BASE)

add_bit_to_vector(digits, bit) ==
    IF bit # 1 THEN digits ELSE add_carry_to_vector(digits, 1, 1)

\* the lower chunks printed without their zero padding
RECURSIVE chunks_tail_unpadded(_, _)
chunks_tail_unpadded(digits, i) ==
    IF i < 1 THEN <<>>
    ELSE std_to_string(digits[i]) \o chunks_tail_unpadded(digits, i - 1)

RECURSIVE chunks_tail(_, _)
chunks_tail(digits, i) ==
    IF i < 1 THEN <<>>
    ELSE With(std_to_string(digits[i]),
              LAMBDA part : [k \in 1..(9 - Len(part)) |-> ZERO] \o part
                                \o chunks_tail(digits, i - 1))

digits_to_string(digits, sign) ==
    IF digits = <<>> THEN <<ZERO>>
    ELSE With(std_to_string(digits[Len(digits)]) \o chunks_tail(digits, Len(digits) - 1),
              LAMBDA result : IF sign /\ result # <<ZERO>> THEN <<MINUS>> \o result ELSE result)

\* the inner loop of to_string(BinaryArithmetic): bits 7..0 of one word
RECURSIVE binary_bits_of_word(_, _, _)
binary_bits_of_word(current_word, i, digits) ==
    IF i < 0 THEN digits
    ELSE With(add_bit_to_vector(multiply_vector_by_2(digits, 1, 0), BitOf(current_word, i)),
              LAMBDA d : IF Len(d) > 0 THEN binary_bits_of_word(current_word, i - 1, d) ELSE d)

\* the outer loop of to_string(BinaryArithmetic): words high to low
RECURSIVE binary_bits_loop(_, _, _)
binary_bits_loop(words, wi, digits) ==
    IF wi < 1 THEN digits
    ELSE With(binary_bits_of_word(words[wi], VALUE_COUNT_BIT - 1, digits),
              LAMBDA d : IF Len(d) > 0 THEN binary_bits_loop(words, wi - 1, d) ELSE d)

\* to_string(const BinaryArithmetic&)
Binary_to_string(a) ==
    IF a.words = <<>> THEN <<ZERO>>
    ELSE IF Len(a.words) <= UINT64_DIGITS \div VALUE_COUNT_BIT
    THEN (IF a.sign THEN <<MINUS>> ELSE <<>>) \o
         (IF Binary_is_zero(a) THEN std_to_string(0)
          ELSE std_to_string_u64(Binary_assemble(a, UINT64_DIGITS)))
    ELSE digits_to_string(binary_bits_loop(a.words, Len(a.words), <<0>>),
                          a.sign)

\* BinaryArithmetic::compare
RECURSIVE binary_compare_words(_, _, _)
binary_compare_words(a, b, i) ==
    IF i < 0 THEN 0
    ELSE LET lhs_word == BinaryAccess_extract(a.words, i)
             rhs_word == BinaryAccess_extract(b.words, i) IN
         IF lhs_word < rhs_word THEN (IF a.sign THEN 1 ELSE -1)
         ELSE IF lhs_word > rhs_word THEN (IF a.sign THEN -1 ELSE 1)
         ELSE binary_compare_words(a, b, i - 1)

\* compare without the inversion for two negative values
Binary_compare_magnitude(a, b) ==
    IF a.sign # b.sign THEN (IF a.sign THEN -1 ELSE 1)
    ELSE binary_compare_words([a EXCEPT !.sign = FALSE], [b EXCEPT !.sign = FALSE],
                              Max(Len(a.words), Len(b.words)) - 1)

Binary_compare(a, b) ==
    IF a.sign # b.sign THEN (IF a.sign THEN -1 ELSE 1)
    ELSE With(Binary_is_zero(a), LAMBDA this_is_zero :
         With(Binary_is_zero(b), LAMBDA other_is_zero :
              IF this_is_zero /\ other_is_zero THEN 0
              ELSE IF this_is_zero /\ ~other_is_zero THEN -1
              ELSE IF ~this_is_zero /\ other_is_zero THEN 1
              ELSE binary_compare_words(a, b, Max(Len(a.words), Len(b.words)) - 1)))

\* the word loop of BinaryArithmetic::add: <<words of the result, carry>>
RECURSIVE binary_add_loop(_, _, _, _, _, _)
binary_add_loop(a, b, idx, size, carry, acc) ==
    IF idx >= size THEN <<acc, carry>>
    ELSE With(OverflowOps_sum(BinaryAccess_extract(a.words, idx),
                              BinaryAccess_extract(b.words, idx), carry),
              LAMBDA r : IF Len(r) > 0
                         THEN binary_add_loop(a, b, idx + 1, size, r[2], Append(acc, r[1]))
                         ELSE <<acc, carry>>)

Binary_add(a, b) ==
    With(binary_add_loop(a, b, 0, Max(Len(a.words), Len(b.words)), 0, <<>>),
         LAMBDA r : Binary_trim_leading_zeros(
                        Storage(IF r[2] # 0 THEN Append(r[1], 1) ELSE r[1], FALSE, 0)))

\* the word loop of BinaryArithmetic::subtract: <<words of the result, borrow>>
RECURSIVE binary_subtract_loop(_, _, _, _, _, _)
binary_subtract_loop(a, b, idx, size, borrow, acc) ==
    IF idx >= size THEN <<acc, borrow>>
    ELSE With(OverflowOps_subtract(BinaryAccess_extract(a.words, idx),
                                   BinaryAccess_extract(b.words, idx), borrow),
              LAMBDA r : IF Len(r) > 0
                         THEN binary_subtract_loop(a, b, idx + 1, size, r[2],
                                                   Append(acc, r[1]))
                         ELSE <<acc, borrow>>)

Binary_subtract(a, b) ==
    With(binary_subtract_loop(a, b, 0, Max(Len(a.words), Len(b.words)), 0, <<>>),
         LAMBDA r : Binary_trim_leading_zeros(
                        Storage(IF r[2] # 0 THEN Append(r[1], 1) ELSE r[1], FALSE, 0)))

----------------------------------------------------------------------------
(* internal::FactorAccess: the bit-packed coefficient codec                *)

NULLOPT == -1

RECURSIVE count_bits(_)
count_bits(value) ==
    IF value = 0 THEN 0 ELSE 1 + count_bits(value \div 2)

log2_floor(value) == IF value = 0 THEN 0 ELSE count_bits(value) - 1

safe_shift_left(v, sh) == IF sh >= 64 THEN 0 ELSE v * (2 ^ sh)

\* an offset that takes every slice below index to be as wide as the last one
total_bits_up_to_uniform(index) ==
    IF index = 0 \/ index = 1 THEN 0 ELSE (index - 1) * count_bits(index - 1)

total_bits_up_to(index) ==
    IF index = 0 \/ index = 1 THEN 0
    ELSE With(index - 1, LAMBDA N :
         With(log2_floor(N), LAMBDA M :
         With(safe_shift_left(1, M + 1), LAMBDA pow2 :
              N + (M * N - (pow2 - M - 2)))))

\* extract that reads the part of the slice held by its first word only
extract_loop_first_chunk(words, sizewd, bits_processed, current_bit_in_storage, result) ==
    LET bit_offset_in_word == current_bit_in_storage % VALUE_COUNT_BIT
        bits_to_read_in_step == Min(sizewd, VALUE_COUNT_BIT - bit_offset_in_word) IN
    (words[(current_bit_in_storage \div VALUE_COUNT_BIT) + 1] \div (2 ^ bit_offset_in_word))
        % (2 ^ bits_to_read_in_step)

\* the chunk loop of FactorAccess::extract
RECURSIVE extract_loop(_, _, _, _, _)
extract_loop(words, sizewd, bits_processed, current_bit_in_storage, result) ==
    IF bits_processed >= sizewd THEN result
    ELSE LET word_idx == current_bit_in_storage \div VALUE_COUNT_BIT
             bit_offset_in_word == current_bit_in_storage % VALUE_COUNT_BIT
             bits_available_in_word == VALUE_COUNT_BIT - bit_offset_in_word
             bits_to_read_in_step == Min(sizewd - bits_processed, bits_available_in_word)
             chunk == (words[word_idx + 1] \div (2 ^ bit_offset_in_word))
                          % (2 ^ bits_to_read_in_step) IN
         extract_loop(words, sizewd, bits_processed + bits_to_read_in_step,
                      current_bit_in_storage + bits_to_read_in_step,
                      result + chunk * (2 ^ bits_processed))

\* FactorAccess::extract(data, index): the coefficient, or NULLOPT
FactorAccess_extract(data, index) ==
    With(total_bits_up_to(index), LAMBDA poswd :
    With(count_bits(index), LAMBDA sizewd :
    With(Len(data.words) * VALUE_COUNT_BIT, LAMBDA count_bits_in_storage :
         IF sizewd = 0 THEN 0
         ELSE IF poswd >= count_bits_in_storage THEN NULLOPT
         ELSE IF poswd + sizewd > count_bits_in_storage THEN NULLOPT
         ELSE extract_loop(data.words, sizewd, 0, poswd, 0))))

value_or(opt, dflt) == IF opt = NULLOPT THEN dflt ELSE opt

\* the sum of the first n entries of a function on 0 .. n - 1
RECURSIVE BinaryMagnitudeOfBits(_, _)
BinaryMagnitudeOfBits(f, n) == IF n = 0 THEN 0 ELSE f[n - 1] + BinaryMagnitudeOfBits(f, n - 1)

\* put that ors the value into the words and clears no bit of the slice
RECURSIVE put_loop_unmasked(_, _, _, _, _)
put_loop_unmasked(words, value, sizewd, bits_processed, current_bit_in_storage) ==
    IF bits_processed >= sizewd THEN words
    ELSE LET word_idx == current_bit_in_storage \div VALUE_COUNT_BIT
             bit_offset_in_word == current_bit_in_storage % VALUE_COUNT_BIT
             bits_to_write_in_step ==
                 Min(sizewd - bits_processed, VALUE_COUNT_BIT - bit_offset_in_word)
             chunk_from_value == (value \div (2 ^ bits_processed)) % (2 ^ bits_to_write_in_step)
             old_chunk == (words[word_idx + 1] \div (2 ^ bit_offset_in_word))
                              % (2 ^ bits_to_write_in_step)
             \* old_chunk | chunk_from_value, bit by bit
             ored == [b \in 0..(bits_to_write_in_step - 1) |->
                         IF BitOf(old_chunk, b) = 1 \/ BitOf(chunk_from_value, b) = 1
                         THEN 2 ^ b ELSE 0]
             add == [b \in 0..(bits_to_write_in_step - 1) |->
                         IF BitOf(old_chunk, b) = 0 THEN ored[b] ELSE 0] IN
         put_loop_unmasked(
             [words EXCEPT ![word_idx + 1] =
                 @ + (2 ^ bit_offset_in_word)
                         * BinaryMagnitudeOfBits(add, bits_to_write_in_step)],
             value, sizewd, bits_processed + bits_to_write_in_step,
             current_bit_in_storage + bits_to_write_in_step)

\* the chunk loop of FactorAccess::put
RECURSIVE put_loop(_, _, _, _, _)
put_loop(words, value, sizewd, bits_processed, current_bit_in_storage) ==
    IF bits_processed >= sizewd THEN words
    ELSE LET word_idx == current_bit_in_storage \div VALUE_COUNT_BIT
             bit_offset_in_word == current_bit_in_storage % VALUE_COUNT_BIT
             bits_available_in_word == VALUE_COUNT_BIT - bit_offset_in_word
             bits_to_write_in_step == Min(sizewd - bits_processed, bits_available_in_word)
             chunk_from_value == (value \div (2 ^ bits_processed)) % (2 ^ bits_to_write_in_step)
             word_64 == words[word_idx + 1]
             \* word_64 &= ~mask_shifted_64
             cleared == word_64 - ((word_64 \div (2 ^ bit_offset_in_word))
                                      % (2 ^ bits_to_write_in_step)) * (2 ^ bit_offset_in_word)
             \* word_64 |= chunk_from_value << bit_offset_in_word, cast to uint8_t
             written == (cleared + chunk_from_value * (2 ^ bit_offset_in_word)) % 256 IN
         put_loop([words EXCEPT ![word_idx + 1] = written], value, sizewd,
                  bits_processed + bits_to_write_in_step,
                  current_bit_in_storage + bits_to_write_in_step)

\* FactorAccess::put throws std::logic_error
put_throws(index, value) == count_bits(index) # 0 /\ index < value

\* FactorAccess::put(data, index, value) when it does not throw
FactorAccess_put(data, index, value) ==
    With(total_bits_up_to(index), LAMBDA poswd :
    With(count_bits(index), LAMBDA sizewd :
    With((poswd + sizewd + VALUE_COUNT_BIT - 1) \div VALUE_COUNT_BIT, LAMBDA total_words_needed :
         IF sizewd = 0 THEN data
         ELSE Storage(put_loop(IF total_words_needed > Len(data.words)
                               THEN [i \in 1..total_words_needed |->
                                        IF i <= Len(data.words) THEN data.words[i] ELSE 0]
                               ELSE data.words,
                               value, sizewd, 0, poswd),
                      data.sign,
                      IF data.value < index THEN index ELSE data.value))))

----------------------------------------------------------------------------
(* FactorialArithmetic                                                     *)

\* the index of the last coefficient extract finds, scanning from idx
RECURSIVE last_present(_, _)
last_present(a, idx) ==
    IF FactorAccess_extract(a, idx + 1) = NULLOPT THEN idx
    ELSE last_present(a, idx + 1)

RECURSIVE factorial_all_zero(_, _)
factorial_all_zero(a, idx) ==
    With(FactorAccess_extract(a, idx), LAMBDA digit_opt :
         IF digit_opt = NULLOPT THEN TRUE
         ELSE IF digit_opt # 0 THEN FALSE
         ELSE factorial_all_zero(a, idx + 1))

Factorial_is_zero(a) == factorial_all_zero(a, 0)

\* trim_leading_zeros that sets aux to 0
Factorial_trim_leading_zeros_aux_zero(a) == Storage(a.words, a.sign, 0)

Factorial_trim_leading_zeros(a) ==
    With(last_present(a, 0), LAMBDA maxindex :
         IF maxindex = 0 /\ a.words # <<>> THEN Storage(<<0>>, a.sign, 0)
         ELSE With(total_bits_up_to(maxindex + 1), LAMBDA bits_used :
              With((bits_used + VALUE_COUNT_BIT - 1) \div VALUE_COUNT_BIT, LAMBDA words_used :
                   Storage(IF Len(a.words) > words_used THEN SubSeq(a.words, 1, words_used)
                           ELSE a.words,
                           a.sign, maxindex))))

\* FactorialArithmetic(std::string_view) for a string the validity check accepts
Factorial_from_string(str) ==
    LET neg == str[1] = MINUS
        value == IF neg THEN Tail(str) ELSE str IN
    IF Len(value) = 1 /\ value[1] = ZERO THEN Storage(<<0>>, neg, 0)
    ELSE With(While(LAMBDA st : st.value # <<ZERO>>,
                    LAMBDA st :
                        With(divide_string_by_integral(st.value, st.digit_idx + 1), LAMBDA qr :
                             [value |-> qr[1], digit_idx |-> st.digit_idx + 1,
                              storage |-> Append(st.storage, qr[2])]),
                    [value |-> value, digit_idx |-> 0, storage |-> <<>>]),
              LAMBDA parsed :
         With(remove_zeros(parsed.storage, "Trailing", 0), LAMBDA coeffs :
              While(LAMBDA st : st.idx < Len(coeffs),
                    LAMBDA st : [idx |-> st.idx + 1,
                                 data |-> FactorAccess_put(st.data, st.idx, coeffs[st.idx + 1])],
                    [idx |-> 0, data |-> Storage(<<>>, neg, 0)]).data))

\* FactorialArithmetic(_Ty value)
Factorial_from_int(value) ==
    IF value = 0 THEN Storage(<<0>>, FALSE, 0)
    ELSE Factorial_trim_leading_zeros(
             While(LAMBDA st : st.abs_value > 0,
                   LAMBDA st : [idx |-> st.idx + 1, abs_value |-> st.abs_value \div st.idx,
                                data |-> FactorAccess_put(st.data, st.idx - 1,
                                                          st.abs_value % st.idx)],
                   [idx |-> 1, abs_value |-> IF value < 0 THEN -value ELSE value,
                    data |-> Storage(<<>>, value < 0, 0)]).data)

\* FactorialArithmetic()
Factorial_default == EmptyStorage

\* FactorialArithmetic::compare
RECURSIVE factorial_compare_coeffs(_, _, _)
factorial_compare_coeffs(a, b, i) ==
    IF i < 0 THEN 0
    ELSE With(value_or(FactorAccess_extract(a, i), 0), LAMBDA lhs_coeff :
         With(value_or(FactorAccess_extract(b, i), 0), LAMBDA rhs_coeff :
              IF lhs_coeff < rhs_coeff THEN (IF a.sign THEN 1 ELSE -1)
              ELSE IF lhs_coeff > rhs_coeff THEN (IF a.sign THEN -1 ELSE 1)
              ELSE factorial_compare_coeffs(a, b, i - 1)))

Factorial_compare(a, b) ==
    IF a.sign # b.sign THEN (IF a.sign THEN -1 ELSE 1)
    ELSE With(Factorial_is_zero(a), LAMBDA this_is_zero :
         With(Factorial_is_zero(b), LAMBDA other_is_zero :
              IF this_is_zero /\ other_is_zero THEN 0
              ELSE IF this_is_zero /\ ~other_is_zero THEN -1
              ELSE IF ~this_is_zero /\ other_is_zero THEN 1
              ELSE factorial_compare_coeffs(a, b, Max(a.value, b.value))))

\* FactorialArithmetic::add
Factorial_add(a, b) ==
    Factorial_trim_leading_zeros(
         While(LAMBDA st : ~(/\ FactorAccess_extract(a, st.idx) = NULLOPT
                                 /\ FactorAccess_extract(b, st.idx) = NULLOPT
                                 /\ st.carry = 0),
                   LAMBDA st :
                       With(st.idx + 1, LAMBDA base :
                       With(value_or(FactorAccess_extract(a, st.idx), 0)
                                + value_or(FactorAccess_extract(b, st.idx), 0) + st.carry,
                            LAMBDA sum :
                                [idx |-> st.idx + 1,
                                 carry |-> IF sum >= base THEN 1 ELSE 0,
                                 result |-> FactorAccess_put(st.result, st.idx,
                                                IF sum >= base THEN sum - base ELSE sum)])),
                   [idx |-> 0, carry |-> 0, result |-> EmptyStorage]).result)

\* the locals of FactorialArithmetic::subtract before its loop
factorial_subtract_enter == [idx |-> 0, borrow |-> 0, result |-> EmptyStorage]

\* !a_opt.has_value() && !b_opt.has_value() at position idx
factorial_subtract_absent(a, b, idx) ==
    /\ FactorAccess_extract(a, idx) = NULLOPT
    /\ FactorAccess_extract(b, idx) = NULLOPT

\* the exit test of the position loop of subtract
factorial_subtract_break(a, b, st) ==
    factorial_subtract_absent(a, b, st.idx) /\ st.borrow = 0

\* one round of the position loop of subtract
factorial_subtract_round(a, b, st) ==
    With(st.idx + 1, LAMBDA base :
    With(value_or(FactorAccess_extract(a, st.idx), 0)
             - value_or(FactorAccess_extract(b, st.idx), 0) - st.borrow,
         LAMBDA diff :
             [idx |-> st.idx + 1,
              borrow |-> IF diff < 0 THEN 1 ELSE 0,
              result |-> FactorAccess_put(st.result, st.idx,
                             IF diff < 0 THEN diff + base ELSE diff)]))

\* the position loop of FactorialArithmetic::subtract.  The loop leaves only
\* with borrow = 0; once both coefficients are absent and a borrow is pending,
\* every later round finds the same, so the loop never ends: diverges.
Factorial_subtract_run(a, b) ==
    With(While(LAMBDA st : ~factorial_subtract_absent(a, b, st.idx),
               LAMBDA st : factorial_subtract_round(a, b, st),
               factorial_subtract_enter),
         LAMBDA r : [st |-> r.result, diverges |-> r.borrow # 0])

Factorial_subtract(a, b) ==
    Factorial_trim_leading_zeros(Factorial_subtract_run(a, b).st)

\* the lambda multiply_string_by_uint64 of to_string(FactorialArithmetic)
multiply_string_by_uint64(num_str, factor) ==
    IF factor = 0 \/ num_str = <<ZERO>> THEN <<ZERO>>
    ELSE IF factor = 1 THEN num_str
    ELSE Reverse(While(LAMBDA st : st.carry > 0,
                       LAMBDA st : [carry |-> st.carry \div 10,
                                    result |-> st.result \o std_to_string(st.carry % 10)],
                       While(LAMBDA st : st.i >= 1,
                             LAMBDA st :
                                 LET product == (num_str[st.i] - ZERO) * factor + st.carry IN
                                 [i |-> st.i - 1, carry |-> product \div 10,
                                  result |-> st.result \o std_to_string(product % 10)],
                             [i |-> Len(num_str), carry |-> 0, result |-> <<>>])).result)

\* the lambda add_strings of to_string(FactorialArithmetic); i, j are 1-based
fact_add_strings(num1_str, num2_str) ==
    IF num1_str = <<ZERO>> THEN num2_str
    ELSE IF num2_str = <<ZERO>> THEN num1_str
    ELSE LET r == While(LAMBDA st : st.i >= 1 \/ st.j >= 1 \/ st.carry # 0,
                        LAMBDA st :
                            LET digit1 == IF st.i >= 1 THEN num1_str[st.i] - ZERO ELSE 0
                                digit2 == IF st.j >= 1 THEN num2_str[st.j] - ZERO ELSE 0
                                current_sum == digit1 + digit2 + st.carry IN
                            [i |-> IF st.i >= 1 THEN st.i - 1 ELSE st.i,
                             j |-> IF st.j >= 1 THEN st.j - 1 ELSE st.j,
                             carry |-> current_sum \div 10,
                             sum |-> st.sum \o std_to_string(current_sum % 10)],
                        [i |-> Len(num1_str), j |-> Len(num2_str), carry |-> 0, sum |-> <<>>]) IN
         Reverse(r.sum)

\* to_string(const FactorialArithmetic&)
Factorial_to_string(a) ==
    IF Factorial_is_zero(a) THEN <<ZERO>>
    ELSE With(While(LAMBDA st : st.idx <= a.value
                                    /\ FactorAccess_extract(a, st.idx) # NULLOPT,
                    LAMBDA st :
                        With(FactorAccess_extract(a, st.idx), LAMBDA coefficient :
                             [idx |-> st.idx + 1,
                              decimal_sum |->
                                  IF coefficient # 0
                                  THEN fact_add_strings(st.decimal_sum,
                                           multiply_string_by_uint64(st.current_factorial,
                                                                     coefficient))
                                  ELSE st.decimal_sum,
                              current_factorial |->
                                  multiply_string_by_uint64(st.current_factorial, st.idx + 1)]),
                    [idx |-> 0, decimal_sum |-> <<ZERO>>,
                     current_factorial |-> <<ONE>>]).decimal_sum,
              LAMBDA decimal_sum :
                  IF a.sign /\ decimal_sum # <<ZERO>> THEN <<MINUS>> \o decimal_sum
                  ELSE decimal_sum)

----------------------------------------------------------------------------
(* BaseComparable / BaseArithmetic / IntegralBase: the instantiations for  *)
(* Derived = BinaryArithmetic and Derived = FactorialArithmetic, and the    *)
(* operators of R, R in {"Binary", "Factorial"}                            *)

\* BaseArithmetic::operator-() const
\* a sign that is set whatever it was
operator_neg_set(a) == [a EXCEPT !.sign = TRUE]

operator_neg(a) == [a EXCEPT !.sign = ~a.sign]

\* BaseArithmetic::operator+(): a copy
operator_pos(a) == [words |-> a.words, sign |-> a.sign, value |-> a.value]

\* abs that returns its argument as it is
Binary_abs_same(value) == value

\* IntegralBase::abs; Derived{} is the default-constructed value
Binary_abs(value) ==
    IF Binary_compare(value, Binary_default) < 0 THEN operator_neg(value) ELSE value

\* the branch BaseArithmetic::operator+ takes and the operands it hands to
\* the magnitude kernel: lhs.add(rhs), return 0, or larger.subtract(smaller)
KernelCall(kernel, a, b) == [kernel |-> kernel, a |-> a, b |-> b]

\* operator+ that subtracts rhs from lhs whenever the signs differ
Binary_plus_call_unordered(lhs, rhs) ==
    KernelCall(IF lhs.sign = rhs.sign THEN "add" ELSE "subtract", lhs, rhs)

Binary_plus_call(lhs, rhs) ==
    IF lhs.sign = rhs.sign THEN KernelCall("add", lhs, rhs)
    ELSE With(Binary_abs(lhs), LAMBDA abs_lhs :
         With(Binary_abs(rhs), LAMBDA abs_rhs :
              IF Binary_compare(abs_lhs, abs_rhs) = 0 THEN KernelCall("none", lhs, rhs)
              ELSE With(Binary_compare(abs_lhs, abs_rhs) > 0, LAMBDA lhsAbsGe :
                        KernelCall("subtract", IF lhsAbsGe THEN lhs ELSE rhs,
                                               IF lhsAbsGe THEN rhs ELSE lhs))))

\* BaseArithmetic::operator+
Binary_plus(lhs, rhs) ==
    IF lhs.sign = rhs.sign
    THEN [Binary_add(lhs, rhs) EXCEPT !.sign = lhs.sign]
    ELSE With(Binary_plus_call(lhs, rhs), LAMBDA c :
              IF c.kernel = "none" THEN Binary_from_int(0)
              ELSE [Binary_subtract(c.a, c.b) EXCEPT !.sign = c.a.sign])

\* BaseArithmetic::operator-
Binary_minus(lhs, rhs) == Binary_plus(lhs, operator_neg(rhs))

Factorial_abs(value) ==
    IF Factorial_compare(value, Factorial_default) < 0 THEN operator_neg(value) ELSE value

Factorial_plus_call(lhs, rhs) ==
    IF lhs.sign = rhs.sign THEN KernelCall("add", lhs, rhs)
    ELSE With(Factorial_abs(lhs), LAMBDA abs_lhs :
         With(Factorial_abs(rhs), LAMBDA abs_rhs :
              IF Factorial_compare(abs_lhs, abs_rhs) = 0 THEN KernelCall("none", lhs, rhs)
              ELSE With(Factorial_compare(abs_lhs, abs_rhs) > 0, LAMBDA lhsAbsGe :
                        KernelCall("subtract", IF lhsAbsGe THEN lhs ELSE rhs,
                                               IF lhsAbsGe THEN rhs ELSE lhs))))

Factorial_plus(lhs, rhs) ==
    IF lhs.sign = rhs.sign
    THEN [Factorial_add(lhs, rhs) EXCEPT !.sign = lhs.sign]
    ELSE With(Factorial_plus_call(lhs, rhs), LAMBDA c :
              IF c.kernel = "none" THEN Factorial_from_int(0)
              ELSE [Factorial_subtract(c.a, c.b) EXCEPT !.sign = c.a.sign])

Factorial_minus(lhs, rhs) == Factorial_plus(lhs, operator_neg(rhs))

compare(R, a, b) == IF R = "Binary" THEN Binary_compare(a, b) ELSE Factorial_compare(a, b)

operator_lt(R, a, b) == compare(R, a, b) < 0
operator_gt(R, a, b) == compare(R, a, b) > 0
operator_le(R, a, b) == compare(R, a, b) <= 0
operator_ge(R, a, b) == compare(R, a, b) >= 0
operator_eq(R, a, b) == compare(R, a, b) = 0
operator_ne(R, a, b) == compare(R, a, b) # 0

operator_plus(R, lhs, rhs) ==
    IF R = "Binary" THEN Binary_plus(lhs, rhs) ELSE Factorial_plus(lhs, rhs)
operator_minus(R, lhs, rhs) ==
    IF R = "Binary" THEN Binary_minus(lhs, rhs) ELSE Factorial_minus(lhs, rhs)

----------------------------------------------------------------------------
(* Outcomes of an operation: a value, a thrown exception, a string, a      *)
(* native integer                                                          *)

Outcome(kind, val, exc, text, n, flags, parts) ==
    [kind |-> kind, val |-> val, exc |-> exc, text |-> text, n |-> n,
     flags |-> flags, parts |-> parts]

Value(v) == Outcome("value", v, "none", <<>>, 0, <<>>, <<>>)
Throw(e) == Outcome("throw", EmptyStorage, e, <<>>, 0, <<>>, <<>>)
Text(t) == Outcome("text", EmptyStorage, "none", t, 0, <<>>, <<>>)
Native(k) == Outcome("native", EmptyStorage, "none", <<>>, k, <<>>, <<>>)
Nothing == Outcome("none", EmptyStorage, "none", <<>>, 0, <<>>, <<>>)

----------------------------------------------------------------------------
(* BinaryArithmetic::multiply / divide / modulo                            *)

\* the inner loop of multiply over the bits of one word of other
RECURSIVE binary_multiply_bits(_, _, _, _, _)
binary_multiply_bits(a, word, elem_idx, bit_idx, result) ==
    IF bit_idx >= VALUE_COUNT_BIT THEN result
    ELSE With(IF BitOf(word, bit_idx) = 1
              THEN With(elem_idx * VALUE_COUNT_BIT + bit_idx, LAMBDA bit_pos :
                   With([shift_left(a, bit_pos) EXCEPT !.sign = FALSE], LAMBDA temp :
                        Binary_plus(result, temp)))
              ELSE result,
              LAMBDA r : IF Len(r.words) >= 0
                         THEN binary_multiply_bits(a, word, elem_idx, bit_idx + 1, r)
                         ELSE r)

RECURSIVE binary_multiply_words(_, _, _, _)
binary_multiply_words(a, b, elem_idx, result) ==
    IF elem_idx >= Len(b.words) THEN result
    ELSE With(binary_multiply_bits(a, b.words[elem_idx + 1], elem_idx, 0, result),
              LAMBDA r : IF Len(r.words) >= 0 THEN binary_multiply_words(a, b, elem_idx + 1, r)
                         ELSE r)

Binary_multiply(a, b) ==
    IF Binary_is_zero(a) \/ Binary_is_zero(b) THEN Binary_from_int(0)
    ELSE Binary_trim_leading_zeros(
             [binary_multiply_words(a, b, 0, Binary_from_int(0)) EXCEPT !.sign = (a.sign # b.sign)])

\* the number of significant bits of a word
RECURSIVE top_bit(_, _)
top_bit(w, bit) ==
    IF bit < 0 THEN 0
    ELSE IF BitOf(w, bit) = 1 THEN bit + 1
    ELSE top_bit(w, bit - 1)

\* the count of the highest set bit of the dividend in divide
RECURSIVE binary_total_bits(_, _)
binary_total_bits(data, i) ==
    IF i < 0 THEN 0
    ELSE IF data[i + 1] # 0 THEN i * VALUE_COUNT_BIT + top_bit(data[i + 1], VALUE_COUNT_BIT - 1)
    ELSE binary_total_bits(data, i - 1)

\* bit i of the dividend is set
binary_divide_bit(data, i) ==
    /\ i \div VALUE_COUNT_BIT < Len(data)
    /\ BitOf(data[(i \div VALUE_COUNT_BIT) + 1], i % VALUE_COUNT_BIT) = 1

\* remainder in round i after the shift and remainder += 1
binary_divide_remainder(data, i, st) ==
    IF binary_divide_bit(data, i)
    THEN Binary_plus(shift_left(st.remainder, 1), Binary_from_int(1))
    ELSE shift_left(st.remainder, 1)

\* one round of the restoring division loop for bit i: [remainder, quotient]
binary_divide_step(data, rhs_abs, i, st) ==
    With(i \div VALUE_COUNT_BIT, LAMBDA elem_idx :
    With(i % VALUE_COUNT_BIT, LAMBDA bit_idx :
    With(binary_divide_remainder(data, i, st),
         LAMBDA remainder :
             IF Binary_compare(remainder, rhs_abs) >= 0
             THEN With(IF elem_idx >= Len(st.quotient.words)
                       THEN [k \in 1..(elem_idx + 1) |->
                                IF k <= Len(st.quotient.words) THEN st.quotient.words[k] ELSE 0]
                       ELSE st.quotient.words,
                       LAMBDA qw :
                           [remainder |-> Binary_minus(remainder, rhs_abs),
                            quotient |->
                                [st.quotient EXCEPT !.words =
                                    [qw EXCEPT ![elem_idx + 1] =
                                        IF BitOf(@, bit_idx) = 1 THEN @ ELSE @ + 2 ^ bit_idx]]])
             ELSE [remainder |-> remainder, quotient |-> st.quotient])))

\* the rounds i = hi, hi - 1, ..., lo of the division loop
RECURSIVE binary_divide_rounds(_, _, _, _, _)
binary_divide_rounds(data, rhs_abs, hi, lo, st) ==
    IF hi < lo THEN st
    ELSE With(binary_divide_step(data, rhs_abs, hi, st),
              LAMBDA n : IF Len(n.remainder.words) >= 0 /\ Len(n.quotient.words) >= 0
                         THEN binary_divide_rounds(data, rhs_abs, hi - 1, lo, n)
                         ELSE n)

\* the division loop, taken one word of the dividend at a time
RECURSIVE binary_divide_loop(_, _, _, _)
binary_divide_loop(data, rhs_abs, i, st) ==
    IF i < 0 THEN st
    ELSE With((i \div VALUE_COUNT_BIT) * VALUE_COUNT_BIT, LAMBDA lo :
         With(binary_divide_rounds(data, rhs_abs, i, lo, st),
              LAMBDA n : IF Len(n.remainder.words) >= 0 /\ Len(n.quotient.words) >= 0
                         THEN binary_divide_loop(data, rhs_abs, lo - 1, n)
                         ELSE n))

Binary_divide_throws(a, b) == Binary_is_zero(b)

\* BinaryArithmetic::divide when the divisor is not zero
Binary_divide(a, b) ==
    IF Binary_is_zero(a) THEN Binary_from_int(0)
    ELSE With(Binary_abs(a), LAMBDA lhs_abs :
         With(Binary_abs(b), LAMBDA rhs_abs :
         With(binary_total_bits(lhs_abs.words, Len(lhs_abs.words) - 1), LAMBDA total_bits :
         With(Binary_trim_leading_zeros(
                  binary_divide_loop(lhs_abs.words, rhs_abs, total_bits - 1,
                      [remainder |-> Binary_from_int(0),
                       quotient |-> [Binary_from_int(0) EXCEPT !.sign = (a.sign # b.sign)]]
                  ).quotient),
              LAMBDA quotient :
                  IF Binary_is_zero(quotient)
                  THEN [quotient EXCEPT !.words = Append(quotient.words, 0)]
                  ELSE quotient))))

Binary_modulo_throws(a, b) == Binary_is_zero(b)

\* BinaryArithmetic::modulo when the divisor is not zero
Binary_modulo(a, b) ==
    IF Binary_is_zero(a) THEN Binary_from_int(0)
    ELSE Binary_trim_leading_zeros(
             [Binary_minus(a, Binary_multiply(Binary_divide(a, b), b)) EXCEPT !.sign = a.sign])

----------------------------------------------------------------------------
(* FactorialArithmetic::multiply / divide / modulo                         *)

strip_minus(str) == IF Len(str) > 0 /\ str[1] = MINUS THEN Tail(str) ELSE str
has_minus(str) == Len(str) > 0 /\ str[1] = MINUS

Factorial_multiply(a, b) ==
    IF Factorial_is_zero(a) \/ Factorial_is_zero(b) THEN Factorial_from_int(0)
    ELSE With(Factorial_to_string(a), LAMBDA sa :
         With(Factorial_to_string(b), LAMBDA sb :
         With(multiply_strings(strip_minus(sa), strip_minus(sb)), LAMBDA res :
              Factorial_from_string(IF (has_minus(sa) # has_minus(sb)) /\ res # <<ZERO>>
                                    THEN <<MINUS>> \o res ELSE res))))

\* FactorialArithmetic::divide throws std::overflow_error: its own check, made
\* after the test of the dividend, or the one of divide_strings
Factorial_divide_throws(a, b) ==
    IF Factorial_is_zero(a) THEN FALSE
    ELSE Factorial_is_zero(b) \/ strip_minus(Factorial_to_string(b)) = <<ZERO>>

\* FactorialArithmetic::divide when it does not throw
Factorial_divide(a, b) ==
    IF Factorial_is_zero(a) THEN Factorial_from_int(0)
    ELSE With(Factorial_to_string(a), LAMBDA sa :
         With(Factorial_to_string(b), LAMBDA sb :
         With(divide_strings(strip_minus(sa), strip_minus(sb))[1], LAMBDA current :
              Factorial_from_string(IF (has_minus(sa) # has_minus(sb)) /\ current # <<ZERO>>
                                    THEN <<MINUS>> \o current ELSE current))))

Factorial_modulo_throws(a, b) == Factorial_is_zero(b)

\* FactorialArithmetic::modulo when the divisor is not zero
Factorial_modulo(a, b) ==
    IF Factorial_is_zero(a) THEN Factorial_from_int(0)
    ELSE Factorial_trim_leading_zeros(
             [Factorial_minus(a, Factorial_multiply(Factorial_divide(a, b), b))
                 EXCEPT !.sign = a.sign])

----------------------------------------------------------------------------
(* The calls of operator+ made while an operator is evaluated, in order.    *)
(* larger.subtract(smaller) in operator+ is the only call of the kernel     *)
(* subtract; multiply reaches operator+ through result += temp with both    *)
(* signs false, which is the branch lhs.add(rhs).                           *)

\* round i of the division loop: remainder += 1 and remainder -= rhs_abs
binary_divide_round_calls(data, rhs_abs, i, st) ==
    (IF binary_divide_bit(data, i)
     THEN <<Binary_plus_call(shift_left(st.remainder, 1), Binary_from_int(1))>>
     ELSE <<>>)
    \o With(binary_divide_remainder(data, i, st), LAMBDA remainder :
            IF Binary_compare(remainder, rhs_abs) >= 0
            THEN <<Binary_plus_call(remainder, operator_neg(rhs_abs))>>
            ELSE <<>>)

RECURSIVE binary_divide_calls(_, _, _, _)
binary_divide_calls(data, rhs_abs, i, st) ==
    IF i < 0 THEN <<>>
    ELSE binary_divide_round_calls(data, rhs_abs, i, st)
             \o binary_divide_calls(data, rhs_abs, i - 1,
                                    binary_divide_step(data, rhs_abs, i, st))

\* BinaryArithmetic::divide when the divisor is not zero
Binary_divide_calls(a, b) ==
    IF Binary_is_zero(a) THEN <<>>
    ELSE With(Binary_abs(a), LAMBDA lhs_abs :
              binary_divide_calls(lhs_abs.words, Binary_abs(b),
                  binary_total_bits(lhs_abs.words, Len(lhs_abs.words) - 1) - 1,
                  [remainder |-> Binary_from_int(0),
                   quotient |-> [Binary_from_int(0) EXCEPT !.sign = (a.sign # b.sign)]]))

\* BinaryArithmetic::modulo when the divisor is not zero:
\* divide(other), then *this - (quotient * other)
Binary_modulo_calls(a, b) ==
    IF Binary_is_zero(a) THEN <<>>
    ELSE Append(Binary_divide_calls(a, b),
                Binary_plus_call(a, operator_neg(Binary_multiply(Binary_divide(a, b), b))))

\* FactorialArithmetic::modulo when the divisor is not zero; divide and
\* multiply work on decimal strings
Factorial_modulo_calls(a, b) ==
    IF Factorial_is_zero(a) THEN <<>>
    ELSE <<Factorial_plus_call(a, operator_neg(Factorial_multiply(Factorial_divide(a, b), b)))>>

----------------------------------------------------------------------------
(* BaseArithmetic::operator* / operator/ / operator%                       *)

multiply(R, a, b) == IF R = "Binary" THEN Binary_multiply(a, b) ELSE Factorial_multiply(a, b)

operator_mul(R, lhs, rhs) == Value(multiply(R, lhs, rhs))

operator_div(R, lhs, rhs) ==
    IF R = "Binary"
    THEN IF Binary_divide_throws(lhs, rhs) THEN Throw("overflow_error")
         ELSE Value(Binary_divide(lhs, rhs))
    ELSE IF Factorial_divide_throws(lhs, rhs) THEN Throw("overflow_error")
         ELSE Value(Factorial_divide(lhs, rhs))

operator_mod(R, lhs, rhs) ==
    IF R = "Binary"
    THEN IF Binary_modulo_throws(lhs, rhs) THEN Throw("overflow_error")
         ELSE Value(Binary_modulo(lhs, rhs))
    ELSE IF Factorial_modulo_throws(lhs, rhs) THEN Throw("overflow_error")
         ELSE Value(Factorial_modulo(lhs, rhs))

\* Derived{ n } and Derived{} in the functions of IntegralBase
from_int(R, n) == IF R = "Binary" THEN Binary_from_int(n) ELSE Factorial_from_int(n)

\* IntegralBase::pow: the loop while (exp > 0)
RECURSIVE pow_loop(_, _, _, _)
pow_loop(R, result, base, exp) ==
    IF exp > 0
    THEN pow_loop(R, IF exp % 2 = 1 THEN multiply(R, result, base) ELSE result,
                  multiply(R, base, base), exp \div 2)
    ELSE result

\* IntegralBase::pow(Derived base, unsigned int exp)
pow(R, base, exp) == pow_loop(R, from_int(R, 1), base, exp)

\* IntegralBase::sqrt: the loop while (low <= high)
RECURSIVE sqrt_loop(_, _, _, _)
sqrt_loop(R, value, low, high) ==
    IF operator_le(R, low, high)
    THEN With(operator_div(R, operator_plus(R, low, high), from_int(R, 2)).val, LAMBDA mid :
         With(multiply(R, mid, mid), LAMBDA mid_squared :
              IF operator_eq(R, mid_squared, value) THEN mid
              ELSE IF operator_lt(R, mid_squared, value)
                   THEN sqrt_loop(R, value, operator_plus(R, mid, from_int(R, 1)), high)
                   ELSE sqrt_loop(R, value, low, operator_minus(R, mid, from_int(R, 1)))))
    ELSE high

\* IntegralBase::sqrt(const Derived& value)
sqrt(R, value) ==
    IF operator_lt(R, value, EmptyStorage) THEN Throw("domain_error")
    ELSE IF operator_eq(R, value, EmptyStorage) THEN Value(EmptyStorage)
    ELSE Value(sqrt_loop(R, value, from_int(R, 1), value))

BinaryOps == {"add", "sub", "mul", "div", "mod"}

\* lhs o rhs for the binary operator o
apply(R, o, lhs, rhs) ==
    CASE o = "add" -> Value(operator_plus(R, lhs, rhs))
      [] o = "sub" -> Value(operator_minus(R, lhs, rhs))
      [] o = "mul" -> operator_mul(R, lhs, rhs)
      [] o = "div" -> operator_div(R, lhs, rhs)
      [] o = "mod" -> operator_mod(R, lhs, rhs)

----------------------------------------------------------------------------
(* explicit operator _Ty() for a native integer type of 8 or 16 bits       *)

NativeTypes ==
    { [name |-> "int8_t", bits |-> 8, signed |-> TRUE],
      [name |-> "uint8_t", bits |-> 8, signed |-> FALSE],
      [name |-> "int16_t", bits |-> 16, signed |-> TRUE],
      [name |-> "uint16_t", bits |-> 16, signed |-> FALSE] }

TypeMax(T) == IF T.signed THEN 2 ^ (T.bits - 1) - 1 ELSE 2 ^ T.bits - 1
TypeMin(T) == IF T.signed THEN -(2 ^ (T.bits - 1)) ELSE 0

\* static_cast to an unsigned / a signed type of the given width
cast_unsigned(v, bits) == v % (2 ^ bits)
cast_signed(v, bits) ==
    LET m == v % (2 ^ bits) IN IF m >= 2 ^ (bits - 1) THEN m - 2 ^ bits ELSE m

RECURSIVE bytes_value(_, _)
bytes_value(bytes, i) ==
    IF i > Len(bytes) THEN 0
    ELSE bytes[i] * (2 ^ (VALUE_COUNT_BIT * (i - 1))) + bytes_value(bytes, i + 1)

\* BinaryArithmetic::operator _Ty() const
Binary_to_native(a, T) ==
    IF Binary_is_zero(a) THEN Native(0)
    ELSE IF Len(a.words) * VALUE_COUNT_BIT > T.bits THEN Throw("overflow_error")
    ELSE With(bytes_value(Binary_assemble(a, T.bits), 1), LAMBDA result :
              IF ~T.signed THEN Native(cast_unsigned(result, T.bits))
              ELSE Native(cast_signed(IF a.sign THEN -result ELSE result, T.bits)))

\* the accumulation loop of FactorialArithmetic::operator _Ty(); UnsignedTy has
\* umax = 2^bits - 1 and its operands are promoted to int in every expression
RECURSIVE factorial_native_loop(_, _, _, _, _)
factorial_native_loop(a, umax, idx, result, factorial) ==
    IF idx >= MAX_CONV_INDEX THEN [thrown |-> FALSE, result |-> result]
    ELSE With(FactorAccess_extract(a, idx), LAMBDA digit_opt :
         IF digit_opt = NULLOPT THEN [thrown |-> FALSE, result |-> result]
         ELSE With(digit_opt % (umax + 1), LAMBDA digit :
              IF digit > 0 /\ result > umax - digit * factorial
              THEN [thrown |-> TRUE, result |-> result]
              ELSE With((result + digit * factorial) % (umax + 1), LAMBDA r :
                   IF idx < MAX_CONV_INDEX - 1
                   THEN IF factorial > umax \div (idx + 1)
                        THEN [thrown |-> FALSE, result |-> r]
                        ELSE factorial_native_loop(a, umax, idx + 1, r,
                                 (factorial * (idx + 1)) % (umax + 1))
                   ELSE factorial_native_loop(a, umax, idx + 1, r, factorial))))

\* FactorialArithmetic::operator _Ty() const
Factorial_to_native(a, T) ==
    IF Factorial_is_zero(a) THEN Native(0)
    ELSE With(factorial_native_loop(a, 2 ^ T.bits - 1, 0, 0, 1), LAMBDA r :
         IF r.thrown THEN Throw("overflow_error")
         ELSE IF ~T.signed THEN Native(cast_unsigned(r.result, T.bits))
         ELSE With(cast_signed(r.result, T.bits), LAMBDA signed_val :
              Native(IF a.sign THEN cast_signed(-signed_val, T.bits)
                     ELSE cast_signed(signed_val, T.bits))))


----------------------------------------------------------------------------
(* The driver: two operands are constructed, in both representations, and  *)
(* one operation of the public interface is applied to them.               *)

Operand(src, s, n, bin, fac) == [src |-> src, s |-> s, n |-> n, bin |-> bin, fac |-> fac]

\* std::to_string(int)
decimal(n) == IF n < 0 THEN <<MINUS>> \o std_to_string(-n) ELSE std_to_string(n)

\* R(n) for a native integer n
MkInt(n) == Operand("int", <<>>, n, Binary_from_int(n), Factorial_from_int(n))
\* R(str) for a string the constructors accept
MkStr(str) == Operand("string", str, 0, Binary_from_string(str), Factorial_from_string(str))
\* R(std::to_string(n)); n records the native integer the string was printed from
MkDec(n) == [MkStr(decimal(n)) EXCEPT !.n = n]
\* R()
MkDefault == Operand("default", <<>>, 0, Binary_default, Factorial_default)


\* R(std::string_view value): std::invalid_argument when
\* is_integral_valid_string rejects the string
string_ctor(R, str) ==
    IF ~is_integral_valid_string(str) THEN Throw("invalid_argument")
    ELSE Value(IF R = "Binary" THEN Binary_from_string(str) ELSE Factorial_from_string(str))

AssignName(o) ==
    CASE o = "add" -> "add_assign" [] o = "sub" -> "sub_assign" [] o = "mul" -> "mul_assign"
      [] o = "div" -> "div_assign" [] o = "mod" -> "mod_assign"
AssignOps == {AssignName(o) : o \in BinaryOps}

\* x o y
Operate(o) ==
    /\ pc = "ready"
    /\ out' = [bin |-> apply("Binary", o, x.bin, y.bin),
               fac |-> apply("Factorial", o, x.fac, y.fac)]
    /\ op' = o
    /\ pc' = "done"
    /\ steps' = steps + 1
    /\ UNCHANGED <<x, y, g>>

\* x o= y that empties self before it evaluates self o rhs
Assign_emptied(o) ==
    /\ pc = "ready"
    /\ out' = [bin |-> apply("Binary", o, x.bin, y.bin),
               fac |-> apply("Factorial", o, x.fac, y.fac)]
    /\ x' = [x EXCEPT !.bin = IF out'.bin.kind = "value" THEN out'.bin.val ELSE EmptyStorage,
                      !.fac = IF out'.fac.kind = "value" THEN out'.fac.val ELSE EmptyStorage]
    /\ op' = AssignName(o)
    /\ pc' = "done"
    /\ steps' = steps + 1
    /\ UNCHANGED <<y, g>>

\* x o= y: self = self o rhs; a throw leaves self as it was
Assign(o) ==
    /\ pc = "ready"
    /\ out' = [bin |-> apply("Binary", o, x.bin, y.bin),
               fac |-> apply("Factorial", o, x.fac, y.fac)]
    /\ x' = [x EXCEPT !.bin = IF out'.bin.kind = "value" THEN out'.bin.val ELSE @,
                      !.fac = IF out'.fac.kind = "value" THEN out'.fac.val ELSE @]
    /\ op' = AssignName(o)
    /\ pc' = "done"
    /\ steps' = steps + 1
    /\ UNCHANGED <<y, g>>

\* -x
Negate ==
    /\ pc = "ready"
    /\ out' = [bin |-> Value(operator_neg(x.bin)), fac |-> Value(operator_neg(x.fac))]
    /\ op' = "neg"
    /\ pc' = "done"
    /\ steps' = steps + 1
    /\ UNCHANGED <<x, y, g>>

\* +x
Posit ==
    /\ pc = "ready"
    /\ out' = [bin |-> Value(operator_pos(x.bin)), fac |-> Value(operator_pos(x.fac))]
    /\ op' = "pos"
    /\ pc' = "done"
    /\ steps' = steps + 1
    /\ UNCHANGED <<x, y, g>>

\* ++x and --x: self = self + Derived(1), self = self - Derived(1)
Step(name, o) ==
    /\ pc = "ready"
    /\ out' = [bin |-> apply("Binary", o, x.bin, Binary_from_int(1)),
               fac |-> apply("Factorial", o, x.fac, Factorial_from_int(1))]
    /\ x' = [x EXCEPT !.bin = out'.bin.val, !.fac = out'.fac.val]
    /\ op' = name
    /\ pc' = "done"
    /\ steps' = steps + 1
    /\ UNCHANGED <<y, g>>

Increment == Step("increment", "add")
Decrement == Step("decrement", "sub")

\* the length of a sequence of increments and decrements
MaxSteps == 3

\* one of ++x, x++, --x, x-- in a sequence of them; x.n is the native integer
\* that takes the same steps. A prefix form returns self after the assignment,
\* a postfix form the copy taken before it.
Walk(name, o, d, postfix) ==
    /\ pc \in {"ready", "stepped"}
    /\ steps < MaxSteps
    /\ x' = [x EXCEPT !.bin = apply("Binary", o, x.bin, Binary_from_int(1)).val,
                      !.fac = apply("Factorial", o, x.fac, Factorial_from_int(1)).val,
                      !.n = @ + d]
    /\ out' = [bin |-> Value(IF postfix THEN x.bin ELSE x'.bin),
               fac |-> Value(IF postfix THEN x.fac ELSE x'.fac)]
    /\ op' = name
    /\ pc' = "stepped"
    /\ steps' = steps + 1
    /\ UNCHANGED <<y, g>>

\* to_string(x)
Format ==
    /\ pc = "ready"
    /\ out' = [bin |-> Text(Binary_to_string(x.bin)), fac |-> Text(Factorial_to_string(x.fac))]
    /\ op' = "to_string"
    /\ pc' = "done"
    /\ steps' = steps + 1
    /\ UNCHANGED <<x, y, g>>

\* x.compare(y) and the six comparison operators:
\* flags = << x<y, y>x, x<=y, y>=x, x!=y, x==x, x==y, x>y >>
CompareOutcome(R, a, b) ==
    Outcome("native", EmptyStorage, "none", <<>>, compare(R, a, b),
            << operator_lt(R, a, b), operator_gt(R, b, a), operator_le(R, a, b),
               operator_ge(R, b, a), operator_ne(R, a, b), operator_eq(R, a, a),
               operator_eq(R, a, b), operator_gt(R, a, b) >>,
            <<>>)

Compare ==
    /\ pc = "ready"
    /\ out' = [bin |-> CompareOutcome("Binary", x.bin, y.bin),
               fac |-> CompareOutcome("Factorial", x.fac, y.fac)]
    /\ op' = "compare"
    /\ pc' = "done"
    /\ steps' = steps + 1
    /\ UNCHANGED <<x, y, g>>

\* static_cast<T>(x)
Convert(T) ==
    /\ pc = "ready"
    /\ out' = [bin |-> Binary_to_native(x.bin, T), fac |-> Factorial_to_native(x.fac, T)]
    /\ op' = T.name
    /\ pc' = "done"
    /\ steps' = steps + 1
    /\ UNCHANGED <<x, y, g>>

\* R(x.s) for a text that is not yet known to be a number
Construct ==
    /\ pc = "ready"
    /\ x.src = "text"
    /\ out' = [bin |-> string_ctor("Binary", x.s), fac |-> string_ctor("Factorial", x.s)]
    /\ op' = "construct"
    /\ pc' = "done"
    /\ steps' = steps + 1
    /\ UNCHANGED <<x, y, g>>

\* sqrt(x)
Sqrt ==
    /\ pc = "ready"
    /\ out' = [bin |-> sqrt("Binary", x.bin), fac |-> sqrt("Factorial", x.fac)]
    /\ op' = "sqrt"
    /\ pc' = "done"
    /\ steps' = steps + 1
    /\ UNCHANGED <<x, y, g>>

\* pow(x, e) and its comparisons, n = e:
\* flags = << pow(x, e) == 1, pow(x, e) == x, pow(x, e) == x * pow(x, e - 1) >>
\* (the last one TRUE when e = 0)
PowOutcome(R, a, e) ==
    With(pow(R, a, e), LAMBDA p :
         Outcome("value", p, "none", <<>>, e,
                 << operator_eq(R, p, from_int(R, 1)),
                    operator_eq(R, p, a),
                    IF e = 0 THEN TRUE
                    ELSE operator_eq(R, p, multiply(R, a, pow(R, a, e - 1))) >>,
                 <<>>))

Pow(e) ==
    /\ pc = "ready"
    /\ out' = [bin |-> PowOutcome("Binary", x.bin, e), fac |-> PowOutcome("Factorial", x.fac, e)]
    /\ op' = "pow"
    /\ pc' = "done"
    /\ steps' = steps + 1
    /\ UNCHANGED <<x, y, g>>

\* the ring identities on a, b, c under operator==:
\* flags = << (a+b)+c == a+(b+c), a+b == b+a, a+0 == a, a*1 == a, a*0 == 0,
\*            a-a == 0, (a*b)*c == a*(b*c), a*(b+c) == a*b + a*c >>
RingOutcome(R, a, b, c) ==
    With(operator_plus(R, a, b), LAMBDA ab :
    With(operator_plus(R, b, c), LAMBDA bc :
    With(multiply(R, a, b), LAMBDA a_b :
         Outcome("native", EmptyStorage, "none", <<>>, 0,
                 << operator_eq(R, operator_plus(R, ab, c), operator_plus(R, a, bc)),
                    operator_eq(R, ab, operator_plus(R, b, a)),
                    operator_eq(R, operator_plus(R, a, from_int(R, 0)), a),
                    operator_eq(R, multiply(R, a, from_int(R, 1)), a),
                    operator_eq(R, multiply(R, a, from_int(R, 0)), from_int(R, 0)),
                    operator_eq(R, operator_minus(R, a, a), from_int(R, 0)),
                    operator_eq(R, multiply(R, a_b, c), multiply(R, a, multiply(R, b, c))),
                    operator_eq(R, multiply(R, a, bc),
                                operator_plus(R, a_b, multiply(R, a, c))) >>,
                 << c >>))))

Ring(c) ==
    /\ pc = "ready"
    /\ out' = [bin |-> RingOutcome("Binary", x.bin, y.bin, c.bin),
               fac |-> RingOutcome("Factorial", x.fac, y.fac, c.fac)]
    /\ op' = "ring"
    /\ pc' = "done"
    /\ steps' = steps + 1
    /\ UNCHANGED <<x, y, g>>

\* the calls of operator+ an operator makes, in both representations
Calls(cs) == Outcome("calls", EmptyStorage, "none", <<>>, 0, <<>>, cs)

KernelCalls(name, binary_calls, factorial_calls) ==
    /\ pc = "ready"
    /\ out' = [bin |-> Calls(binary_calls), fac |-> Calls(factorial_calls)]
    /\ op' = name
    /\ pc' = "done"
    /\ steps' = steps + 1
    /\ UNCHANGED <<x, y, g>>

\* x + y, x - y, ++x, --x
PlusCalls ==
    KernelCalls("add", <<Binary_plus_call(x.bin, y.bin)>>,
                <<Factorial_plus_call(x.fac, y.fac)>>)
MinusCalls ==
    KernelCalls("sub", <<Binary_plus_call(x.bin, operator_neg(y.bin))>>,
                <<Factorial_plus_call(x.fac, operator_neg(y.fac))>>)
IncrementCalls ==
    KernelCalls("increment", <<Binary_plus_call(x.bin, Binary_from_int(1))>>,
                <<Factorial_plus_call(x.fac, Factorial_from_int(1))>>)
DecrementCalls ==
    KernelCalls("decrement", <<Binary_plus_call(x.bin, operator_neg(Binary_from_int(1)))>>,
                <<Factorial_plus_call(x.fac, operator_neg(Factorial_from_int(1)))>>)
\* x % y for a divisor that is not zero
ModuloCalls ==
    /\ ~Binary_modulo_throws(x.bin, y.bin)
    /\ ~Factorial_modulo_throws(x.fac, y.fac)
    /\ KernelCalls("mod", Binary_modulo_calls(x.bin, y.bin),
                   Factorial_modulo_calls(x.fac, y.fac))

\* the largest position the loop of FactorialArithmetic::subtract is followed to
MaxIndex == 12

\* x.fac.subtract(y.fac), the kernel called on its own, one round of its
\* position loop at a time; out holds the locals idx, borrow and result
SubtractEnter ==
    /\ pc = "ready"
    /\ out' = factorial_subtract_enter
    /\ op' = "subtract"
    /\ pc' = "loop"
    /\ UNCHANGED <<x, y, g, steps>>

SubtractRound ==
    /\ pc = "loop"
    /\ ~factorial_subtract_break(x.fac, y.fac, out)
    /\ out.idx < MaxIndex
    /\ out' = factorial_subtract_round(x.fac, y.fac, out)
    /\ UNCHANGED <<pc, x, y, op, g, steps>>

SubtractBreak ==
    /\ pc = "loop"
    /\ factorial_subtract_break(x.fac, y.fac, out)
    /\ pc' = "after"
    /\ UNCHANGED <<x, y, op, out, g, steps>>

\* after the loop: FA::put(result, idx, static_cast<uint64_t>(-borrow)) when a
\* borrow is left, which is put of 2^64 - 1 > idx and throws std::logic_error;
\* then trim_leading_zeros and return
SubtractReturn ==
    /\ pc = "after"
    /\ pc' = IF out.borrow # 0 THEN "thrown" ELSE "done"
    /\ out' = IF out.borrow # 0 THEN out
              ELSE [out EXCEPT !.result = Factorial_trim_leading_zeros(@)]
    /\ steps' = steps + 1
    /\ UNCHANGED <<x, y, op, g>>

\* FA::put(storage, index, value) on the storage x: it throws
\* std::logic_error and leaves the storage as it is, or stores the value.
\* y keeps the value last asked for at each index, out the call and the bit
\* slice total_bits_up_to and count_bits give the index
Put(name, index, value) ==
    /\ pc = "ready"
    /\ x' = IF put_throws(index, value) THEN x ELSE FactorAccess_put(x, index, value)
    /\ y' = [y EXCEPT ![index] = value]
    /\ out' = [index |-> index, value |-> value,
               exc |-> IF put_throws(index, value) THEN "logic_error" ELSE "none",
               poswd |-> total_bits_up_to(index), sizewd |-> count_bits(index)]
    /\ op' = name
    /\ UNCHANGED <<pc, g>>

\* the largest index of a coefficient sequence d_0 .. d_K
MaxK == 100

\* coefficient sequences: d_i as a function of i
Patterns == {"zero", "half", "max", "alternate", "next"}
Pattern(p, i) ==
    CASE p = "zero" -> 0
      [] p = "half" -> i \div 2
      [] p = "max" -> i
      [] p = "alternate" -> IF i % 2 = 0 THEN 0 ELSE i
      [] p = "next" -> i + 1

\* put(storage, i, d_i) for i = 0, 1, ..., K in turn; steps is the next index
PutInOrder(p) ==
    /\ op \in {"none", p}
    /\ steps <= MaxK
    /\ Put(p, steps, Pattern(p, steps))
    /\ steps' = steps + 1

\* put calls in any order of indexes, a slice that spans two words and its
\* neighbours among them, values above the index included
CodecIndexes == {0, 6, 7, 8}
CodecValues(i) == {0, 1, i, i + 1}

PutAnyOrder ==
    /\ op \in {"none", "put"}
    /\ \E i \in CodecIndexes : \E v \in CodecValues(i) : Put("put", i, v)
    /\ UNCHANGED steps

\* OverflowAwareOps::sum and OverflowAwareOps::subtract called on their own,
\* as constexpr_sum<T> and constexpr_subtract<T> call them: x holds the width
\* of T and the arguments, out the pair <<result, carry or borrow left>>
WordOp(name, w, a, b, c, result) ==
    /\ pc = "ready"
    /\ x' = [w |-> w, a |-> a, b |-> b, c |-> c]
    /\ out' = result
    /\ op' = name
    /\ pc' = "done"
    /\ steps' = steps + 1
    /\ UNCHANGED <<y, g>>

\* the halves the 32-bit arguments are built from
UIntHalves == {0, 1, 10, 20, 32768, 65534, 65535}
UInts == UIntHalves \X UIntHalves

Sum8 ==
    /\ pc = "ready"
    /\ \E a \in 0..MAX_VALUE, b \in 0..MAX_VALUE, c \in {0, 1} :
           WordOp("sum", 8, a, b, c, OverflowOps_sum(a, b, c))
Subtract8 ==
    /\ pc = "ready"
    /\ \E a \in 0..MAX_VALUE, b \in 0..MAX_VALUE, c \in {0, 1} :
           WordOp("subtract", 8, a, b, c, OverflowOps_subtract(a, b, c))
Sum32 ==
    /\ pc = "ready"
    /\ \E a \in UInts, b \in UInts, c \in {0, 1} :
           WordOp("sum", 32, a, b, c, UIntOps_sum(a, b, c))
Subtract32 ==
    /\ pc = "ready"
    /\ \E a \in UInts, b \in UInts, c \in {0, 1} :
           WordOp("subtract", 32, a, b, c, UIntOps_subtract(a, b, c))

\* (x / y) * y + x % y and its comparison with x:
\* parts = << x / y, x % y, (x / y) * y + x % y >>, flags = << x == parts[3] >>
IdentityOutcome(R, a, b) ==
    With(operator_div(R, a, b), LAMBDA q :
    With(operator_mod(R, a, b), LAMBDA m :
         IF q.kind = "throw" THEN q
         ELSE IF m.kind = "throw" THEN m
         ELSE With(operator_plus(R, multiply(R, q.val, b), m.val), LAMBDA back :
                   Outcome("value", back, "none", <<>>, 0,
                           << operator_eq(R, a, back) >>, << q.val, m.val, back >>))))

DivIdentity ==
    /\ pc = "ready"
    /\ out' = [bin |-> IdentityOutcome("Binary", x.bin, y.bin),
               fac |-> IdentityOutcome("Factorial", x.fac, y.fac)]
    /\ op' = "div_identity"
    /\ pc' = "done"
    /\ steps' = steps + 1
    /\ UNCHANGED <<x, y, g>>

----------------------------------------------------------------------------
(* Inputs                                                                  *)

MaxSmall == 6
MaxStrVal == 10

\* a string literal from its digits; -1 stands for '-'
Lit(ds) == [i \in 1..Len(ds) |-> IF ds[i] = -1 THEN MINUS ELSE ZERO + ds[i]]

\* native integers whose words, coefficients and products cross the word and
\* position boundaries
SampleInts == {255, 256, -257, 720, -5040, 40320, -46000}
IntInputs == (-MaxSmall..MaxSmall) \cup SampleInts

MinusZero == <<MINUS, ZERO>>

\* 2^64 - 1, 2^64, -(10^20 - 1), 10^21 + 7: around and above the 64-bit limit
BigStrings ==
    { Lit(<<1,8,4,4,6,7,4,4,0,7,3,7,0,9,5,5,1,6,1,5>>),
      Lit(<<1,8,4,4,6,7,4,4,0,7,3,7,0,9,5,5,1,6,1,6>>),
      Lit(<<-1,9,9,9,9,9,9,9,9,9,9,9,9,9,9,9,9,9,9,9,9>>),
      Lit(<<1,0,0,0,0,0,0,0,0,0,0,0,0,0,0,0,0,0,0,0,0,7>>) }

StrInputs == {MinusZero} \cup {decimal(n) : n \in (-MaxStrVal)..MaxStrVal}
                 \cup {decimal(n) : n \in SampleInts} \cup BigStrings

IntOperands == {MkInt(n) : n \in IntInputs}
StrOperands == {MkStr(str) : str \in {s \in StrInputs : is_integral_valid_string(s)}}
CmpOperands == IntOperands \cup {MkDec(n) : n \in IntInputs}

\* values around the limits of the 8- and 16-bit native types
ConvInts == {-70000, -32769, -32768, -32767, -5040, -720, -257, -256, -255, -129, -128,
             -127, 127, 128, 129, 200, 255, 256, 257, 719, 720, 5040, 32767, 32768,
             40320, 65535, 65536, 70000}
ConvOperands == {MkInt(n) : n \in (-MaxSmall..MaxSmall) \cup ConvInts}
                    \cup {MkDec(n) : n \in ConvInts}

MainOperands ==
    {MkDefault}
        \cup {MkInt(n) : n \in {0, 42, -6, 3}}
        \cup {MkStr(str) : str \in {MinusZero, decimal(0), decimal(6), decimal(-6),
                                    decimal(3), decimal(-300)}}

MaxTextLen == 3

\* '-', '/', '0', '1', '9', ':' and 'a': the digits, their neighbours in the
\* character set, the sign and a letter
TextChars == {MINUS, ZERO - 1, ZERO, ONE, NINE, NINE + 1, 97}

RECURSIVE TextsOfLen(_)
TextsOfLen(n) ==
    IF n = 0 THEN {<<>>} ELSE {<<c>> \o t : c \in TextChars, t \in TextsOfLen(n - 1)}

TextOperands ==
    {Operand("text", t, 0, EmptyStorage, EmptyStorage) :
        t \in UNION {TextsOfLen(n) : n \in 0..MaxTextLen}}

MaxRoot == 40
MaxExp == 4

\* arguments of sqrt and pow: small values of both signs, values of several
\* words, both zeros and the default-constructed value
FnOperands ==
    {MkDefault, MkStr(MinusZero)}
        \cup {MkInt(n) : n \in (-MaxSmall..MaxRoot) \cup SampleInts}
        \cup {MkDec(n) : n \in (-MaxSmall..MaxSmall) \cup SampleInts}

\* operands of the ring identities, built from decimal strings: both zeros,
\* the unit, values of one and of two words and 2^32 + 15, whose products of
\* two and of three exceed 64 bits
RingOperands ==
    {MkStr(str) : str \in {MinusZero, Lit(<<4,2,9,4,9,6,7,3,1,1>>)}
                      \cup {decimal(n) : n \in {0, 1, -3, 255, -46000}}}

\* starting values of the sequences of ++ and --: around zero, around the word
\* boundary and around 6! and 7!, built from the integer and from its string
WalkOperands ==
    {MkInt(n) : n \in (-MaxSteps..MaxSteps) \cup {255, 256, -256, -257, 719, -720, 5039}}
        \cup {MkDec(n) : n \in {-2, -1, 0, 1, 255, -256, 719, -5040}}

\* operands of the kernels and of the operators that reach them; n is the
\* native integer of the same value
KernelOperands ==
    {MkDefault, MkStr(MinusZero)}
        \cup {MkInt(n) : n \in {0, 1, -1, 5, -6, 23, 119, -120, 300, -5040}}
        \cup {MkDec(n) : n \in {-1, 24, 719}}

----------------------------------------------------------------------------
(* Specifications                                                          *)

Start(operands, garbage) ==
    /\ pc = "ready"
    /\ x \in operands
    /\ y \in operands
    /\ op = "none"
    /\ out = [bin |-> Nothing, fac |-> Nothing]
    /\ g \in garbage
    /\ steps = 0

\* every kind of operand, every operation
Init == Start(MainOperands, BOOLEAN)

Next ==
    \/ \E o \in BinaryOps : Operate(o)
    \/ \E o \in BinaryOps : Assign(o)
    \/ Negate
    \/ Posit
    \/ Increment
    \/ Decrement
    \/ Format
    \/ Compare
    \/ \E T \in NativeTypes : Convert(T)
    \/ DivIdentity

Spec == Init /\ [][Next]_vars

\* operands built from native integers; no operand is default-constructed, so
\* nothing reads past a word vector and g is not consulted
InitInt == Start(IntOperands, {FALSE})

NextInt ==
    \/ \E o \in BinaryOps : Operate(o)
    \/ \E o \in BinaryOps : Assign(o)
    \/ DivIdentity

SpecInt == InitInt /\ [][NextInt]_vars

\* operands built from decimal strings
InitStr == Start(StrOperands, {FALSE})

NextStr ==
    \/ \E o \in BinaryOps : Operate(o)
    \/ Format

SpecStr == InitStr /\ [][NextStr]_vars

\* operands built from a native integer or from its decimal string, compared
InitCmp == Start(CmpOperands, {FALSE})

NextCmp == Compare

SpecCmp == InitCmp /\ [][NextCmp]_vars

\* operands around the limits of the native types, converted
InitConv ==
    /\ Start(ConvOperands, {FALSE})
    /\ y = x

NextConv == \E T \in NativeTypes : Convert(T)

SpecConv == InitConv /\ [][NextConv]_vars

\* texts, accepted or not, handed to the string constructors
InitParse ==
    /\ Start(TextOperands, {FALSE})
    /\ y = x

NextParse == Construct

SpecParse == InitParse /\ [][NextParse]_vars

\* the functions of IntegralBase on one argument
InitFn ==
    /\ Start(FnOperands, BOOLEAN)
    /\ y = x

NextFn ==
    \/ Sqrt
    \/ \E e \in 0..MaxExp : Pow(e)

SpecFn == InitFn /\ [][NextFn]_vars

\* three operands built from decimal strings, in the ring identities
InitRing == Start(RingOperands, {FALSE})

NextRing == \E c \in RingOperands : Ring(c)

SpecRing == InitRing /\ [][NextRing]_vars

\* sequences of increments and decrements
InitWalk ==
    /\ Start(WalkOperands, {FALSE})
    /\ y = x

NextWalk ==
    \/ Walk("pre_inc", "add", 1, FALSE)
    \/ Walk("post_inc", "add", 1, TRUE)
    \/ Walk("pre_dec", "sub", -1, FALSE)
    \/ Walk("post_dec", "sub", -1, TRUE)

SpecWalk == InitWalk /\ [][NextWalk]_vars

\* the kernel subtract on its own, and the calls the operators make of it
InitKernel == Start(KernelOperands, {FALSE})

NextKernel ==
    \/ PlusCalls
    \/ MinusCalls
    \/ IncrementCalls
    \/ DecrementCalls
    \/ ModuloCalls
    \/ SubtractEnter
    \/ SubtractRound
    \/ SubtractBreak
    \/ SubtractReturn

SpecKernel == InitKernel /\ [][NextKernel]_vars

\* the coefficient codec on one storage, empty at first
InitCodec ==
    /\ pc = "ready"
    /\ x = EmptyStorage
    /\ y = [i \in 0..(MaxK + 1) |-> NULLOPT]
    /\ op = "none"
    /\ out = [index |-> 0, value |-> 0, exc |-> "none", poswd |-> 0, sizewd |-> 0]
    /\ g = FALSE
    /\ steps = 0

NextCodec ==
    \/ \E p \in Patterns : PutInOrder(p)
    \/ PutAnyOrder

SpecCodec == InitCodec /\ [][NextCodec]_vars

\* the word helpers of the kernels and of the tests
InitWord ==
    /\ pc = "ready"
    /\ x = [w |-> 8, a |-> 0, b |-> 0, c |-> 0]
    /\ y = x
    /\ op = "none"
    /\ out = <<0, 0>>
    /\ g = FALSE
    /\ steps = 0

NextWord == Sum8 \/ Subtract8 \/ Sum32 \/ Subtract32

SpecWord == InitWord /\ [][NextWord]_vars

----------------------------------------------------------------------------
(* Reference results: the native arithmetic the tests compare against      *)

Abs(n) == IF n < 0 THEN -n ELSE n

\* raw_a / raw_b of native integers: the quotient truncated toward zero
trunc_div(a, b) == LET q == Abs(a) \div Abs(b) IN IF (a < 0) # (b < 0) THEN -q ELSE q

\* raw_a o raw_b
Ref(o, a, b) ==
    CASE o = "add" -> a + b
      [] o = "sub" -> a - b
      [] o = "mul" -> a * b
      [] o = "div" -> trunc_div(a, b)
      [] o = "mod" -> a - trunc_div(a, b) * b

\* the binary operator behind an operator or a compound assignment
BaseOp(name) == CHOOSE o \in BinaryOps : name \in {o, AssignName(o)}

Done(names) == pc = "done" /\ op \in names

\* the strings the input grammar rejects: empty, a lone '-', a leading zero in
\* a run of several digits (also after '-'), or a character that is not a digit
RejectedByGrammar(str) ==
    LET digits == IF Len(str) > 0 /\ str[1] = MINUS THEN Tail(str) ELSE str IN
    \/ str = <<>>
    \/ str = <<MINUS>>
    \/ Len(digits) > 1 /\ digits[1] = ZERO
    \/ \E i \in 1..Len(digits) : digits[i] \notin ZERO..NINE

\* the integer square root of a native integer n >= 0
isqrt(n) == CHOOSE r \in 0..n : r * r <= n /\ n < (r + 1) * (r + 1)

\* the magnitude a word vector stands for
RECURSIVE BinaryMagnitude(_)
BinaryMagnitude(words) ==
    IF words = <<>> THEN 0 ELSE words[1] + 256 * BinaryMagnitude(Tail(words))

\* i!
RECURSIVE Fact(_)
Fact(i) == IF i = 0 THEN 1 ELSE i * Fact(i - 1)

\* the magnitude the coefficients of a factorial-base storage stand for:
\* coefficient i weighs i!, the coefficients read through the codec
RECURSIVE FactorialMagnitude(_, _)
FactorialMagnitude(a, i) ==
    IF FactorAccess_extract(a, i) = NULLOPT THEN 0
    ELSE FactorAccess_extract(a, i) * Fact(i) + FactorialMagnitude(a, i + 1)

\* count_bits(1) + ... + count_bits(i - 1)
SumCountBits(i) ==
    While(LAMBDA st : st.k < i,
          LAMBDA st : [k |-> st.k + 1, sum |-> st.sum + count_bits(st.k)],
          [k |-> 1, sum |-> 0]).sum

\* a + b + c of naturals given by 16-bit halves: <<carry out of 32 bits, high, low>>
NatSum(a, b, c) ==
    LET lo == a[2] + b[2] + c
        hi == a[1] + b[1] + lo \div (2 ^ 16) IN
    << hi \div (2 ^ 16), hi % (2 ^ 16), lo % (2 ^ 16) >>

\* a - b - c of naturals given by 16-bit halves: <<1 when a < b + c, and the
\* halves of the difference modulo 2^32>>
NatDifference(a, b, c) ==
    LET lo == a[2] - b[2] - c
        hi == a[1] - b[1] - (IF lo < 0 THEN 1 ELSE 0) IN
    << IF hi < 0 THEN 1 ELSE 0, hi % (2 ^ 16), lo % (2 ^ 16) >>

ZeroStrings == {<<ZERO>>, MinusZero}

\* both forms throw, or both return values that print the same decimal string
Agree(b, f) ==
    \/ b.kind = "throw" /\ f.kind = "throw"
    \/ /\ b.kind = "value" /\ f.kind = "value"
       /\ Binary_to_string(b.val) = Factorial_to_string(f.val)

----------------------------------------------------------------------------
(* Claims                                                                  *)

\* C1: for all valid decimal strings a, b and every operator + - *, and / %
\* when the value of b is not zero, the Binary and the Factorial result print
\* the same decimal string, or both operators throw.
C1_CrossFormAgreement ==
    (/\ Done(BinaryOps)
     /\ x.src = "string" /\ y.src = "string"
     /\ (op \in {"div", "mod"} => y.s \notin ZeroStrings))
        => Agree(out.bin, out.fac)

\* C2 as stated: for every string s the input grammar accepts, to_string(R(s))
\* is s in both representations.
C2_RoundTripEveryString ==
    (Done({"to_string"}) /\ x.src = "string")
        => (out.bin.text = x.s /\ out.fac.text = x.s)

\* C2: for every accepted string s other than "-0", to_string(R(s)) is s in both
\* representations, also beyond 64 bits; to_string(Factorial("-0")) is "0".
C2_RoundTrip ==
    (Done({"to_string"}) /\ x.src = "string")
        => IF x.s = MinusZero THEN out.fac.text = <<ZERO>>
           ELSE out.bin.text = x.s /\ out.fac.text = x.s

C2_Witness ==
    /\ Done({"to_string"}) /\ x.src = "string"
    /\ x.s[1] = MINUS /\ Len(x.bin.words) > UINT64_DIGITS \div VALUE_COUNT_BIT
    /\ out.bin.text = x.s /\ out.fac.text = x.s

\* C3: for native integers a, b the operators + - * print the mathematical
\* sum, difference and product, / the quotient truncated toward zero and % the
\* remainder with the dividend's sign (b # 0), in both representations; a
\* compound assignment leaves in its left operand the value the operator returns.
C3_ReferenceArithmetic ==
    (/\ Done(BinaryOps \cup AssignOps)
     /\ x.src = "int" /\ y.src = "int"
     /\ (BaseOp(op) \in {"div", "mod"} => y.n # 0))
        => LET o == BaseOp(op)
               expected == decimal(Ref(o, x.n, y.n)) IN
           /\ out.bin.kind = "value" /\ Binary_to_string(out.bin.val) = expected
           /\ out.fac.kind = "value" /\ Factorial_to_string(out.fac.val) = expected
           /\ op \in AssignOps =>
                  /\ x.bin = apply("Binary", o, Binary_from_int(x.n), y.bin).val
                  /\ x.fac = apply("Factorial", o, Factorial_from_int(x.n), y.fac).val
                  /\ Binary_to_string(x.bin) = expected
                  /\ Factorial_to_string(x.fac) = expected

C3_Witness ==
    /\ Done({"mod_assign"}) /\ x.src = "int" /\ y.src = "int"
    /\ x.n < 0 /\ y.n > 1 /\ Ref("mod", x.n, y.n) < 0
    /\ Binary_to_string(x.bin) = decimal(Ref("mod", x.n, y.n))
    /\ Factorial_to_string(x.fac) = decimal(Ref("mod", x.n, y.n))

\* C4: a / b and a % b throw std::overflow_error for every divisor b of zero
\* value and every dividend a, a zero dividend included, in both representations.
C4_DivisionByZero ==
    (/\ Done({"div", "mod", "div_assign", "mod_assign"})
     /\ Binary_is_zero(y.bin) /\ Factorial_is_zero(y.fac))
        => (out.bin = Throw("overflow_error") /\ out.fac = Throw("overflow_error"))

\* C5: the conversion of a value v to a native integer type T returns v when
\* min(T) <= v <= max(T) and throws std::overflow_error when v is outside that
\* range, in both representations.
C5_NativeConversion ==
    \A T \in NativeTypes :
        Done({T.name}) =>
            LET expected == IF TypeMin(T) <= x.n /\ x.n <= TypeMax(T) THEN Native(x.n)
                            ELSE Throw("overflow_error") IN
            out.bin = expected /\ out.fac = expected

\* C6: for all a, b with b # 0, a == (a/b)*b + a%b under operator==, and a
\* nonzero a%b has the sign flag of a, in both representations.
C6_DivisionIdentity ==
    (Done({"div_identity"}) /\ ~Binary_is_zero(y.bin) /\ ~Factorial_is_zero(y.fac))
        => /\ out.bin.kind = "value" /\ out.fac.kind = "value"
           /\ out.bin.flags[1] /\ out.fac.flags[1]
           /\ ~Binary_is_zero(out.bin.parts[2]) => out.bin.parts[2].sign = x.bin.sign
           /\ ~Factorial_is_zero(out.fac.parts[2]) => out.fac.parts[2].sign = x.fac.sign

\* C7: for all integers x < y, R(x) < R(y), R(y) > R(x), R(x) <= R(y),
\* R(y) >= R(x), R(x) != R(y) and R(x) == R(x) hold in both representations, and
\* a value built from a native integer n compares equal to the value built from
\* the decimal string of n.
C7_ComparisonOrder ==
    Done({"compare"}) =>
        \A r \in {out.bin, out.fac} :
            /\ r.flags[6]
            /\ x.n < y.n => \A k \in 1..5 : r.flags[k]
            /\ x.n = y.n => r.flags[7]

C7_Witness ==
    /\ Done({"compare"})
    /\ x.src = "int" /\ y.src = "string" /\ x.n < y.n /\ y.n < 0
    /\ \A r \in {out.bin, out.fac} : \A k \in 1..6 : r.flags[k]

\* C8: two values of zero magnitude whose sign flags differ compare equal in
\* both representations: compare returns 0, == is true, < and > are false.
C8_SignedZeroEqual ==
    Done({"compare"}) =>
        /\ (Binary_is_zero(x.bin) /\ Binary_is_zero(y.bin) /\ x.bin.sign # y.bin.sign)
               => (out.bin.n = 0 /\ out.bin.flags[7] /\ ~out.bin.flags[1] /\ ~out.bin.flags[8])
        /\ (Factorial_is_zero(x.fac) /\ Factorial_is_zero(y.fac) /\ x.fac.sign # y.fac.sign)
               => (out.fac.n = 0 /\ out.fac.flags[7] /\ ~out.fac.flags[1] /\ ~out.fac.flags[8])

\* C9: every Binary value reachable through construction, the operators
\* + - * / %, unary -, compound assignment, ++ and -- that has zero magnitude
\* has sign = false.
C9_BinaryZeroUnsigned ==
    \A v \in {x.bin, y.bin} \cup (IF out.bin.kind = "value" THEN {out.bin.val} ELSE {}) :
        Binary_is_zero(v) => ~v.sign

\* C10: every result of + - * / % on Factorial operands built from native
\* integers that has zero magnitude has sign = false and compares equal to
\* Factorial(0).
C10_FactorialCanonicalZero ==
    (/\ Done(BinaryOps)
     /\ x.src = "int" /\ y.src = "int"
     /\ out.fac.kind = "value" /\ Factorial_is_zero(out.fac.val))
        => /\ ~out.fac.val.sign
           /\ operator_eq("Factorial", out.fac.val, Factorial_from_int(0))

\* C11: to_string of every value of zero magnitude is exactly "0" in both
\* representations, whatever its sign flag; '-' is the first character only
\* when the sign is set and the value is not zero.
C11_CanonicalZeroOutput ==
    Done({"to_string"}) =>
        /\ Binary_is_zero(x.bin) => out.bin.text = <<ZERO>>
        /\ Factorial_is_zero(x.fac) => out.fac.text = <<ZERO>>
        /\ has_minus(out.bin.text) <=> (x.bin.sign /\ ~Binary_is_zero(x.bin))
        /\ has_minus(out.fac.text) <=> (x.fac.sign /\ ~Factorial_is_zero(x.fac))

\* C12: in both representations the constructor from a string throws
\* std::invalid_argument exactly when the string is empty, a lone '-', has a
\* leading zero in a run of several digits (also after '-') or holds a
\* character that is not a digit; every other string constructs a value.
C12_ParseErrors ==
    Done({"construct"}) =>
        \A r \in {out.bin, out.fac} :
            IF RejectedByGrammar(x.s) THEN r = Throw("invalid_argument")
            ELSE r.kind = "value"

C12_Witness ==
    /\ Done({"construct"})
    /\ x.s = <<MINUS, ZERO, ONE>>
    /\ out.bin = Throw("invalid_argument") /\ out.fac = Throw("invalid_argument")

\* C13: for every x >= 0, in both representations, sqrt(x) returns the r with
\* r*r <= x < (r+1)*(r+1).
C13_SqrtBounds ==
    (Done({"sqrt"}) /\ x.n >= 0) =>
        /\ out.bin.kind = "value" /\ Binary_to_string(out.bin.val) = decimal(isqrt(x.n))
        /\ out.fac.kind = "value" /\ Factorial_to_string(out.fac.val) = decimal(isqrt(x.n))

\* C14: sqrt(x) throws std::domain_error if and only if x < 0 as an integer,
\* and returns zero for every x of value 0.
C14_SqrtDomain ==
    Done({"sqrt"}) =>
        /\ (out.bin = Throw("domain_error")) <=> (x.n < 0)
        /\ (out.fac = Throw("domain_error")) <=> (x.n < 0)
        /\ x.n = 0 => /\ out.bin.kind = "value" /\ Binary_is_zero(out.bin.val)
                      /\ out.fac.kind = "value" /\ Factorial_is_zero(out.fac.val)

\* C15: for every x, negative and zero included, and every unsigned e,
\* pow(x, 0) == 1, pow(x, 1) == x and pow(x, e) == x * pow(x, e-1) for e >= 1,
\* in both representations.
C15_PowerLaws ==
    Done({"pow"}) =>
        \A r \in {out.bin, out.fac} :
            /\ r.n = 0 => r.flags[1]
            /\ r.n = 1 => r.flags[2]
            /\ r.n >= 1 => r.flags[3]

\* C16: for all a, b, c of one representation built from valid decimal
\* strings, under operator==: (a+b)+c == a+(b+c), a+b == b+a, a+0 == a,
\* a*1 == a, a*0 == 0, a-a == 0, (a*b)*c == a*(b*c), a*(b+c) == a*b + a*c.
C16_RingAxioms ==
    Done({"ring"}) =>
        \A r \in {out.bin, out.fac} : \A k \in 1..8 : r.flags[k]

\* C17: for every value a of either representation, zero included, +a has the
\* sign of a and -a the other sign; both are copies with the magnitude of a,
\* and a is left unchanged.
C17_UnaryOperators ==
    [][(pc = "ready" /\ op' \in {"pos", "neg"}) =>
           /\ x' = x
           /\ out'.bin.kind = "value" /\ out'.fac.kind = "value"
           /\ out'.bin.val.sign = (IF op' = "pos" THEN x.bin.sign ELSE ~x.bin.sign)
           /\ out'.fac.val.sign = (IF op' = "pos" THEN x.fac.sign ELSE ~x.fac.sign)
           /\ out'.bin.val.words = x.bin.words
           /\ out'.fac.val.words = x.fac.words /\ out'.fac.val.value = x.fac.value]_vars

C17_Witness ==
    /\ Done({"neg"})
    /\ x.src = "int" /\ x.n = 0
    /\ out.bin.val.sign /\ out.fac.val.sign
    /\ Binary_is_zero(out.bin.val) /\ Factorial_is_zero(out.fac.val)

\* C18: starting from R(n), after any sequence of prefix and postfix ++ and --
\* the value is n + (number of increments) - (number of decrements), also
\* across zero; a prefix form returns the new value and a postfix form the
\* value held before the step.
C18_IncrementDecrement ==
    pc = "stepped" =>
        LET before == IF op = "post_inc" THEN x.n - 1
                      ELSE IF op = "post_dec" THEN x.n + 1 ELSE x.n IN
        /\ Binary_to_string(x.bin) = decimal(x.n)
        /\ Factorial_to_string(x.fac) = decimal(x.n)
        /\ operator_eq("Binary", x.bin, Binary_from_int(x.n))
        /\ operator_eq("Factorial", x.fac, Factorial_from_int(x.n))
        /\ Binary_to_string(out.bin.val) = decimal(before)
        /\ Factorial_to_string(out.fac.val) = decimal(before)
        /\ op \in {"pre_inc", "pre_dec"} => (out.bin.val = x.bin /\ out.fac.val = x.fac)

C18_Witness ==
    /\ pc = "stepped" /\ op = "post_inc"
    /\ y.n = -1 /\ x.n = 1
    /\ Binary_to_string(x.bin) = decimal(1) /\ Factorial_to_string(x.fac) = decimal(1)
    /\ Binary_to_string(out.bin.val) = decimal(0)
    /\ Factorial_to_string(out.fac.val) = decimal(0)

\* C19: when a /= b or a %= b throws because b is zero, a holds afterwards the
\* magnitude and the sign it held before the call, and b is unchanged.
C19_FailedAssignment ==
    [][(pc = "ready" /\ op' \in {"div_assign", "mod_assign"}) =>
           /\ y' = y
           /\ out'.bin.kind = "throw" => x'.bin = x.bin
           /\ out'.fac.kind = "throw" => x'.fac = x.fac]_vars

C19_Witness ==
    /\ Done({"mod_assign"})
    /\ out.bin = Throw("overflow_error") /\ out.fac = Throw("overflow_error")
    /\ x.src = "int" /\ x.n = -6
    /\ x.bin = Binary_from_int(-6) /\ x.fac = Factorial_from_int(-6)
    /\ Binary_is_zero(y.bin)

\* C20: in both representations a default-constructed value equals R(0),
\* prints as "0", and as either operand of + - * and as the dividend of / and %
\* gives the result R(0) gives, with no read outside its word storage.
C20_DefaultConstruction ==
    LET bx == IF x.src = "default" THEN Binary_from_int(0) ELSE x.bin
        by == IF y.src = "default" THEN Binary_from_int(0) ELSE y.bin
        fx == IF x.src = "default" THEN Factorial_from_int(0) ELSE x.fac
        fy == IF y.src = "default" THEN Factorial_from_int(0) ELSE y.fac IN
    /\ (pc = "ready" /\ x.src = "default") =>
           /\ operator_eq("Binary", x.bin, Binary_from_int(0))
           /\ operator_eq("Factorial", x.fac, Factorial_from_int(0))
           /\ Binary_to_string(x.bin) = <<ZERO>>
           /\ Factorial_to_string(x.fac) = <<ZERO>>
    /\ (/\ Done(BinaryOps)
        /\ "default" \in {x.src, y.src}
        /\ op \in {"div", "mod"} => (y.src # "default" /\ ~Binary_is_zero(y.bin)))
           => /\ out.bin.kind = "value" /\ out.fac.kind = "value"
              /\ operator_eq("Binary", out.bin.val, apply("Binary", op, bx, by).val)
              /\ operator_eq("Factorial", out.fac.val, apply("Factorial", op, fx, fy).val)
              /\ Binary_to_string(out.bin.val)
                     = Binary_to_string(apply("Binary", op, bx, by).val)
              /\ Factorial_to_string(out.fac.val)
                     = Factorial_to_string(apply("Factorial", op, fx, fy).val)
              /\ ~trim_reads_outside(out.bin.val)

\* C21: after every public Binary constructor and operation (default
\* construction and a division with a zero quotient included) the word
\* sequence is non-empty and its high-order word is not zero, except that
\* zero is the single word [0].
C21_BinaryNormalForm ==
    \A v \in {x.bin, y.bin} \cup (IF out.bin.kind = "value" THEN {out.bin.val} ELSE {}) :
        /\ Len(v.words) >= 1
        /\ v.words[Len(v.words)] # 0 \/ v.words = <<0>>

\* C22: FactorialArithmetic::subtract called with a minuend of smaller
\* magnitude ends its position loop after the last populated position, a
\* borrow remaining: where neither operand has a coefficient the loop is left.
C22_SubtractTerminates ==
    (/\ pc = "loop"
     /\ Abs(x.n) < Abs(y.n)
     /\ factorial_subtract_absent(x.fac, y.fac, out.idx))
        => factorial_subtract_break(x.fac, y.fac, out)

\* the kernel subtract is handed a minuend whose magnitude is not below the
\* subtrahend's and leaves no borrow after the highest position
SubtractCallsInOrder(R, calls) ==
    \A k \in 1..Len(calls) :
        calls[k].kernel = "subtract" =>
            IF R = "Binary"
            THEN /\ BinaryMagnitude(calls[k].a.words) >= BinaryMagnitude(calls[k].b.words)
                 /\ binary_subtract_loop(calls[k].a, calls[k].b, 0,
                        Max(Len(calls[k].a.words), Len(calls[k].b.words)), 0, <<>>)[2] = 0
            ELSE /\ FactorialMagnitude(calls[k].a, 0) >= FactorialMagnitude(calls[k].b, 0)
                 /\ ~Factorial_subtract_run(calls[k].a, calls[k].b).diverges

\* C23: in every evaluation of a + b, a - b, a % b, ++a and --a, in either
\* representation and for operands of zero magnitude with either sign flag
\* too, the kernel subtract is called only with |minuend| >= |subtrahend|, so
\* that no borrow is left after the highest position.
C23_SubtractPrecondition ==
    Done({"add", "sub", "mod", "increment", "decrement"}) =>
        /\ SubtractCallsInOrder("Binary", out.bin.parts)
        /\ SubtractCallsInOrder("Factorial", out.fac.parts)

C23_Witness ==
    /\ Done({"sub"})
    /\ x.n = 5 /\ y.n = 23
    /\ out.bin.parts = <<KernelCall("subtract", operator_neg(y.bin), x.bin)>>
    /\ out.fac.parts = <<KernelCall("subtract", operator_neg(y.fac), x.fac)>>

\* C24 as the specification states it: for every K <= 100 and every
\* coefficient sequence d_0 .. d_K with 0 <= d_i <= i + 1, after put(storage,
\* i, d_i) for each i, extract(storage, i) is d_i for every i.
C24_RoundTripUpToNext ==
    op \in Patterns =>
        \A i \in 0..(steps - 1) : FactorAccess_extract(x, i) = Pattern(op, i)

\* C24: for every K <= 100 and every coefficient sequence d_0 .. d_K with
\* 0 <= d_i <= i, after put(storage, i, d_i) for each i, extract(storage, i)
\* is d_i for every i.
C24_RoundTrip ==
    op \in Patterns \ {"next"} =>
        \A i \in 0..(steps - 1) : FactorAccess_extract(x, i) = Pattern(op, i)

C24_Witness ==
    /\ op = "max" /\ steps = MaxK + 1
    /\ FactorAccess_extract(x, 7) = 7
    /\ FactorAccess_extract(x, MaxK) = MaxK

\* C25: put(storage, index, value) fails with std::logic_error for every
\* index <= MAXINDEX and every value > index, and leaves the storage words
\* and aux as they were.
C25_RejectsOutOfBound ==
    [][ out'.value > out'.index => (out'.exc = "logic_error" /\ x' = x) ]_vars

\* C26: put(storage, i, v) with v <= i changes the bit slice of coefficient i
\* only: every coefficient j # i present before the call reads the same after
\* it, and after any sequence of valid puts, in any order of indexes and across
\* word boundaries, extract(j) is the value last written to j.
C26_WritesAreLocal ==
    /\ [][ (out'.exc = "none" /\ out'.value <= out'.index) =>
               \A j \in (0..last_present(x, 0)) \ {out'.index} :
                   FactorAccess_extract(x', j) = FactorAccess_extract(x, j) ]_vars
    /\ [](\A j \in 0..MaxK :
              (y[j] # NULLOPT /\ y[j] <= j) => FactorAccess_extract(x, j) = y[j])

C26_Witness ==
    /\ op = "put"
    /\ out.index = 7 /\ out.value = 1 /\ out.exc = "none"
    /\ y[6] = 6 /\ y[8] = 8
    /\ FactorAccess_extract(x, 6) = 6
    /\ FactorAccess_extract(x, 7) = 1
    /\ FactorAccess_extract(x, 8) = 8

\* C27: for every index i >= 1 of the range the codec is used on, the closed
\* form total_bits_up_to(i) is count_bits(1) + ... + count_bits(i - 1), so
\* total_bits_up_to(i + 1) = total_bits_up_to(i) + count_bits(i) and the bit
\* slices of two coefficients do not overlap.
C27_ContiguousOffsets ==
    out.index >= 1 =>
        /\ out.poswd = SumCountBits(out.index)
        /\ total_bits_up_to(out.index + 1) = out.poswd + out.sizewd
        /\ \A j \in 1..(out.index - 1) : total_bits_up_to(j) + count_bits(j) <= out.poswd

C27_Witness ==
    out.index = MaxK /\ out.poswd = 573 /\ out.sizewd = 7

\* C28: for the word types the helper is used with, uint8_t in the kernels
\* and 32-bit unsigned int in the tests, all a, b in [0, 2^W) and borrow in
\* {0, 1}, OverflowAwareOps::subtract returns (a - b - borrow) mod 2^W and
\* leaves borrow = 1 exactly when a < b + borrow as natural numbers.
C28_SubtractWithBorrow ==
    Done({"subtract"}) =>
        IF x.w = 8
        THEN out = << (x.a - x.b - x.c) % (2 ^ 8), IF x.a < x.b + x.c THEN 1 ELSE 0 >>
        ELSE out = << <<NatDifference(x.a, x.b, x.c)[2], NatDifference(x.a, x.b, x.c)[3]>>,
                      NatDifference(x.a, x.b, x.c)[1] >>

\* C29: for the same word types, all a, b in [0, 2^W) and carry in {0, 1},
\* OverflowAwareOps::sum returns (a + b + carry) mod 2^W and leaves carry = 1
\* exactly when a + b + carry >= 2^W.
C29_AddWithCarry ==
    Done({"sum"}) =>
        IF x.w = 8
        THEN out = << (x.a + x.b + x.c) % (2 ^ 8), IF x.a + x.b + x.c >= 2 ^ 8 THEN 1 ELSE 0 >>
        ELSE out = << <<NatSum(x.a, x.b, x.c)[2], NatSum(x.a, x.b, x.c)[3]>>,
                      NatSum(x.a, x.b, x.c)[1] >>

C29_Witness ==
    /\ Done({"sum"})
    /\ x.w = 32
    /\ x.a = <<65535, 65535>> /\ x.b = <<65535, 65535>> /\ x.c = 1
    /\ out = << <<65535, 65535>>, 1 >>

\* every nonzero coefficient of a has an index <= aux
AuxCovers(a) ==
    \A i \in 0..last_present(a, 0) : FactorAccess_extract(a, i) # 0 => i <= a.value

\* C30: for every Factorial value reached through the constructors (string,
\* native integer, default) and the operators, every nonzero coefficient has
\* an index <= aux, so that compare, which scans down from max(aux_a, aux_b),
\* and to_string, which stops at aux, miss no nonzero coefficient, though the
\* integer and the string constructor may store different aux for one number.
C30_AuxCoversCoefficients ==
    \A v \in {x.fac, y.fac} \cup (IF out.fac.kind = "value" THEN {out.fac.val} ELSE {}) :
        AuxCovers(v)

C30_Witness ==
    /\ Done({"add"})
    /\ x.src = "int" /\ x.n = 3
    /\ y.src = "string" /\ y.s = <<ZERO + 3>>
    /\ x.fac.value # y.fac.value
    /\ out.fac.kind = "value"
    /\ FactorAccess_extract(out.fac.val, 3) = 1
    /\ out.fac.val.value >= 3

====
